---- MODULE Spec2Model ----
(***************************************************************************)
(* A model of the discrete-event simulation engine: the TimeLine (the     *)
(* time-ordered event store), the EventDispatcher and its handlers, the    *)
(* ScheduledEventGenerator and the Simulator's run loop.                   *)
(*                                                                         *)
(* Three specifications share the definitions:                             *)
(*   TimelineSpec    a client calling the TimeLine's methods directly      *)
(*   DispatcherSpec  a client registering handlers and dispatching Events  *)
(*   Spec            a client configuring a Simulator and calling run()    *)
(*                                                                         *)
(* Conventions.  A Python float time is a small integer.  An Optional      *)
(* value is a sequence of length at most one (<<>> is None).  float('inf') *)
(* is the number Inf, larger than every time and count the model reaches.  *)
(* An Event is a record [time, event_type, priority, id]; id stands for    *)
(* the uuid given at construction and is drawn from the counter next_uid.  *)
(***************************************************************************)
EXTENDS Integers, Sequences, FiniteSets

\* ------------------------------------------------------------------ bounds

\* Times given to Events by the client are 0..MaxTime.
MaxTime == 2
\* Priorities given to Events by the client are 0..MaxPriority.
MaxPriority == 1
\* At most MaxUid Events are ever constructed in one behaviour of
\* TimelineSpec or of PoissonSpec.
MaxUid == 3
\* A schedule_events call passes a list of at most MaxBatch Events.
MaxBatch == 2
\* At most MaxHandlers handlers are registered with a dispatcher.
MaxHandlers == 3
\* At most MaxDispatchUid Events are constructed by dispatch calls and the
\* handlers they run in one behaviour of DispatcherSpec.
MaxDispatchUid == 7
\* At most MaxGenerators generators and MaxSimHandlers handlers are added to
\* a Simulator.
MaxGenerators == 2
MaxSimHandlers == 2
\* set_max_events is called with a limit in 0..MaxEventLimit.
MaxEventLimit == 2
\* At most MaxSimUid Events are constructed during one behaviour of Spec (by
\* the generators and the handlers); a step that would construct more is not
\* taken.
MaxSimUid == 6
\* run() is called at most MaxRuns times on a Simulator.
MaxRuns == 2
\* A CompositeEventGenerator is built over at most MaxChildren generators.
MaxChildren == 2
\* The ghost `stream` records at most MaxGenCalls generate calls.
MaxGenCalls == 5
\* random.expovariate gives an interval in 0..MaxDelta.
MaxDelta == 2
\* A ChainHandler is built over at most MaxChain handlers.
MaxChain == 2
\* A client holds at most MaxEventObjects Events with payload, stores at most
\* MaxCells lists in payloads, and appends to a list up to length MaxListLen.
MaxEventObjects == 2
MaxCells == 2
MaxListLen == 1
\* The M/M/c example runs with 1..MaxServers servers up to a simulation time
\* in 1..MaxSimulationTime and creates at most MaxQueueUid Events.
MaxServers == 2
MaxSimulationTime == 2
MaxQueueUid == 7
\* float('inf'), the default of max_time and max_events.
Inf == 1000

Times == 0..MaxTime
Priorities == 0..MaxPriority
Types == {"X", "Y"}

None == <<>>
Some(x) == <<x>>

VARIABLES
    timeline,    \* the TimeLine object: _event_queue, _current_time, _event_id_counter
    last,        \* the last TimeLine method call: its name, arguments and outcome
    inserted,    \* ghost: ids of the Events inserted since the last clear/reset, in order
    drained,     \* ghost: Events returned by the get_next_event calls made in a row
    clock_before,      \* ghost: _current_time as it was before the last TimeLine call
    next_uid,    \* number of Events constructed so far
    dispatcher,  \* the EventDispatcher object: handlers (by type), default_handlers
    registered,  \* ghost: the handlers passed to register_handler, in call order
    disp,        \* the dispatch call just made, if the last call was one: its Event,
                 \* the list returned, the hooks run
    generators,  \* Simulator.generators, each with its state
    max_time,    \* Simulator.max_time
    max_events,  \* Simulator.max_events
    stop_condition,    \* Simulator.stop_condition, an Optional predicate
    stats,       \* the custom statistics run() records in Simulator.stats
    pc,          \* where the Simulator's client is: "idle", in run() ("running",
                 \* "stopped" after a break, "failed" after an exception), "done",
                 \* "ready" after reset()
    processed_events,  \* run()'s local counter
    stop_reason, \* ghost: the break run() took: "time", "events", "custom", or "none"
    trace,       \* ghost: what run() did so far (see NoTrace)
    history,     \* ghost: one record per run() that returned: how the Simulator was
                 \* when it began, and the (event_type, time) it dispatched, in order
    composite,   \* a CompositeEventGenerator over ScheduledEventGenerators, called
                 \* directly: Optional, None until it is constructed
    gcall,       \* the last generator method call: its target (0 the composite, i its
                 \* i-th child), name, current_time and outcome
    stream,      \* ghost: what the generate calls on the composite returned, while
                 \* they are the only calls made and all pass the same current_time
    emitted,     \* ghost: for each child of the composite, the times of the Events
                 \* its generate calls have returned, in call order
    poisson,     \* a PoissonEventGenerator, called directly: Optional, None until
                 \* it is constructed
    pcall,       \* the last call on it: name, current_time, the interval drawn (if
                 \* one was drawn) and the outcome
    hcall,       \* the last handle call made directly on a handler: the handler, the
                 \* Event, the list returned, the hooks run, the list given to
                 \* post_handle
    evs,         \* the Event objects a client holds, with their payload: each
                 \* payload field is a reference into dicts
    dicts,       \* the dict objects: each maps keys to values, a value being a
                 \* number or a reference into cells
    cells,       \* the list objects stored as payload values: each a sequence
    ecall,       \* the last operation of the client on these Events
    queue_system,       \* the M/M/c example: the QueueSystem shared by its handlers
    arrival_generator,  \* its PoissonEventGenerator, once created
    simulation_time,    \* the max_time given to its Simulator and generator
    mm_pc,              \* where run_queue_simulation is: idle, running, done
    waited,      \* the arrival Events put in the waiting queue, in order
    taken,       \* the arrival Events taken from the waiting queue, in order
    discarded    \* the Event the time limit check discarded, if it ended the run

tlVars == <<timeline, last, inserted, drained, clock_before>>
dispVars == <<dispatcher, registered, disp>>
genVars == <<composite, gcall, stream, emitted>>
mmVars == <<queue_system, arrival_generator, simulation_time, mm_pc, waited, taken, discarded>>
evVars == <<evs, dicts, cells, ecall>>
hcVars == <<hcall>>
poisVars == <<poisson, pcall>>
simVars == <<generators, max_time, max_events, stop_condition, stats, pc,
             processed_events, stop_reason, trace, history>>
vars == <<timeline, last, inserted, drained, clock_before, next_uid, dispatcher, registered, disp,
          generators, max_time, max_events, stop_condition, stats, pc,
          processed_events, stop_reason, trace, history, composite, gcall, stream, emitted,
          poisson, pcall,
          hcall,
          evs, dicts, cells, ecall,
          queue_system, arrival_generator, simulation_time, mm_pc, waited, taken, discarded>>

\* ---------------------------------------------------------------- Event

\* Event(time=..., event_type=..., priority=...), with a fresh id.
Event(t, ty, p, uid) == [time |-> t, event_type |-> ty, priority |-> p, id |-> uid]

\* ------------------------------------------------- Event with its payload

\* The keys and the numbers a client stores in a payload.
Keys == {"k"}
Atoms == {1, 2}

\* A payload value: a number, or a reference to a list object.
Atom(v) == [kind |-> "atom", v |-> v]
Ref(c) == [kind |-> "ref", v |-> c]

\* The object store: Event objects, dict objects, list objects; a reference
\* is an index.
Store(e, d, c) == [evs |-> e, dicts |-> d, cells |-> c]

\* Event(time=..., event_type=..., generator_id=..., priority=...): the
\* payload defaults to a new empty dict.  The new Event is the last of
\* evs.
NewPayloadEvent(st, t, ty, gid, p, uid) ==
    Store(Append(st.evs, [time |-> t, event_type |-> ty, generator_id |-> gid,
                          priority |-> p, id |-> uid,
                          payload |-> Len(st.dicts) + 1]),
          Append(st.dicts, [k \in {} |-> Atom(0)]),
          st.cells)

\* dict.copy(): a new dict object with the same keys, each bound to the same
\* value (for a list, the same list object).  The copy is the last of dicts.
dict_copy(st, d) == Store(st.evs, Append(st.dicts, st.dicts[d]), st.cells)

\* Event.copy_with_new_time: a new Event (fresh id) with the fields of the
\* Event at index i, the time new_time and payload=self.payload.copy().
copy_with_new_time(st, i, new_time, uid) ==
    LET self == st.evs[i]
        copied == dict_copy(st, self.payload)
    IN  Store(Append(copied.evs,
                     [time |-> new_time, event_type |-> self.event_type,
                      generator_id |-> self.generator_id,
                      priority |-> self.priority, id |-> uid,
                      payload |-> Len(copied.dicts)]),
              copied.dicts, copied.cells)

\* Event.add_payload: self.payload[key] = value
add_payload(st, i, key, value) ==
    LET d == st.evs[i].payload
    IN  Store(st.evs,
              [st.dicts EXCEPT ![d] =
                  [k \in DOMAIN @ \cup {key} |-> IF k = key THEN value ELSE @[k]]],
              st.cells)

NoEventCall == [op |-> "none", target |-> 0, source |-> 0]

EventCall(op, target, source) == [op |-> op, target |-> target, source |-> source]

TheStore == Store(evs, dicts, cells)

\* Event(time=0, event_type=ty, generator_id="g", priority=1)
NewEvent ==
    /\ Len(evs) < MaxEventObjects
    /\ \E ty \in Types :
         LET st == NewPayloadEvent(TheStore, 0, ty, Some("g"), 1, next_uid + 1)
         IN  /\ evs' = st.evs
             /\ dicts' = st.dicts
             /\ cells' = st.cells
    /\ next_uid' = next_uid + 1
    /\ ecall' = EventCall("Event", Len(evs) + 1, 0)
    /\ UNCHANGED <<tlVars, dispVars, simVars, genVars, poisVars, hcVars, mmVars>>

\* evs[i].copy_with_new_time(t)
CopyWithNewTime ==
    /\ Len(evs) < MaxEventObjects
    /\ \E i \in 1..Len(evs), t \in Times :
         LET st == copy_with_new_time(TheStore, i, t, next_uid + 1)
         IN  /\ evs' = st.evs
             /\ dicts' = st.dicts
             /\ cells' = st.cells
             /\ ecall' = EventCall("copy_with_new_time", Len(evs) + 1, i)
    /\ next_uid' = next_uid + 1
    /\ UNCHANGED <<tlVars, dispVars, simVars, genVars, poisVars, hcVars, mmVars>>

\* evs[i].add_payload(key, v) for a number v
AddPayload ==
    /\ \E i \in 1..Len(evs), key \in Keys, v \in Atoms :
         LET st == add_payload(TheStore, i, key, Atom(v))
         IN  /\ dicts' = st.dicts
             /\ ecall' = EventCall("add_payload", i, 0)
    /\ UNCHANGED <<evs, cells, next_uid>>
    /\ UNCHANGED <<tlVars, dispVars, simVars, genVars, poisVars, hcVars, mmVars>>

\* evs[i].add_payload(key, []): a new list object stored as a payload value
AddPayloadList ==
    /\ Len(cells) < MaxCells
    /\ \E i \in 1..Len(evs), key \in Keys :
         LET st == add_payload(Store(evs, dicts, Append(cells, <<>>)), i, key,
                               Ref(Len(cells) + 1))
         IN  /\ dicts' = st.dicts
             /\ cells' = st.cells
             /\ ecall' = EventCall("add_payload", i, 0)
    /\ UNCHANGED <<evs, next_uid>>
    /\ UNCHANGED <<tlVars, dispVars, simVars, genVars, poisVars, hcVars, mmVars>>

\* evs[i].payload[key].append(v), for a key bound to a list
AppendToPayloadList ==
    /\ \E i \in 1..Len(evs), v \in Atoms :
         \E key \in DOMAIN dicts[evs[i].payload] :
           LET value == dicts[evs[i].payload][key]
           IN  /\ value.kind = "ref"
               /\ Len(cells[value.v]) < MaxListLen
               /\ cells' = [cells EXCEPT ![value.v] = Append(@, v)]
               /\ ecall' = EventCall("append", i, 0)
    /\ UNCHANGED <<evs, dicts, next_uid>>
    /\ UNCHANGED <<tlVars, dispVars, simVars, genVars, poisVars, hcVars, mmVars>>

\* ---------------------------------------------------------------- TimeLine

\* TimeLine.__init__
TimeLine == [event_queue |-> {}, current_time |-> 0, event_id_counter |-> 0]

\* HeapEntry with the priority not negated.
HeapEntry_PriorityNotNegated(e, counter) == <<e.time, e.priority, counter, e>>

\* The heap element pushed for an Event: (time, -priority, counter, event).
HeapEntry(e, counter) == <<e.time, 0 - e.priority, counter, e>>

\* Python's tuple comparison on heap elements, lexicographic on the first
\* three components (the counter is unique among queued elements, so the
\* comparison never reaches the Event).
EntryLess(a, b) ==
    \/ a[1] < b[1]
    \/ a[1] = b[1] /\ a[2] < b[2]
    \/ a[1] = b[1] /\ a[2] = b[2] /\ a[3] < b[3]

\* The element heapq keeps at index 0: the least one.
HeapTop(q) == CHOOSE x \in q : \A y \in q \ {x} : EntryLess(x, y)

is_empty(tl) == tl.event_queue = {}

size(tl) == Cardinality(tl.event_queue)

\* schedule_event rejecting an Event at the current time as well.
schedule_event_RejectsNow(tl, e) ==
    IF e.time <= tl.current_time
    THEN [tl |-> tl, raised |-> TRUE]
    ELSE [tl |-> [tl EXCEPT
                    !.event_id_counter = @ + 1,
                    !.event_queue = @ \cup {HeapEntry(e, tl.event_id_counter + 1)}],
          raised |-> FALSE]

\* schedule_event accepting an Event in the past.
schedule_event_NoCheck(tl, e) ==
    [tl |-> [tl EXCEPT
               !.event_id_counter = @ + 1,
               !.event_queue = @ \cup {HeapEntry(e, tl.event_id_counter + 1)}],
     raised |-> FALSE]

\* schedule_event taking a counter value for the Event it rejects.
schedule_event_CountsRejected(tl, e) ==
    IF e.time < tl.current_time
    THEN [tl |-> [tl EXCEPT !.event_id_counter = @ + 1], raised |-> TRUE]
    ELSE [tl |-> [tl EXCEPT
                    !.event_id_counter = @ + 1,
                    !.event_queue = @ \cup {HeapEntry(e, tl.event_id_counter + 1)}],
          raised |-> FALSE]

\* schedule_event: raises ValueError for an Event in the past, otherwise
\* increments the counter and pushes the heap element.
schedule_event(tl, e) ==
    IF e.time < tl.current_time
    THEN [tl |-> tl, raised |-> TRUE]
    ELSE [tl |-> [tl EXCEPT
                    !.event_id_counter = @ + 1,
                    !.event_queue = @ \cup {HeapEntry(e, tl.event_id_counter + 1)}],
          raised |-> FALSE]

\* schedule_events checking the whole list before inserting any of it.
schedule_events_Atomic(tl, events) ==
    IF \E i \in 1..Len(events) : events[i].time < tl.current_time
    THEN [tl |-> tl, raised |-> TRUE]
    ELSE [tl |-> [tl EXCEPT
                    !.event_id_counter = @ + Len(events),
                    !.event_queue = @ \cup {HeapEntry(events[i], tl.event_id_counter + i) :
                                               i \in 1..Len(events)}],
          raised |-> FALSE]

\* schedule_events: schedule_event on each element in order; the first
\* ValueError propagates and ends the loop.
RECURSIVE schedule_events(_, _)
schedule_events(tl, events) ==
    IF events = <<>>
    THEN [tl |-> tl, raised |-> FALSE]
    ELSE LET r == schedule_event(tl, Head(events))
         IN  IF r.raised THEN r ELSE schedule_events(r.tl, Tail(events))

\* peek_next_event returning the Event that was inserted first.
peek_next_event_Oldest(tl) ==
    IF is_empty(tl)
    THEN None
    ELSE Some((CHOOSE x \in tl.event_queue : \A y \in tl.event_queue : x[3] <= y[3])[4])

peek_next_event(tl) ==
    IF is_empty(tl) THEN None ELSE Some(HeapTop(tl.event_queue)[4])

peek_next_time(tl) ==
    IF is_empty(tl) THEN None ELSE Some(HeapTop(tl.event_queue)[1])

\* get_next_event putting the clock back to 0 when it finds the queue empty.
get_next_event_EmptyResetsClock(tl) ==
    IF is_empty(tl)
    THEN [tl |-> [tl EXCEPT !.current_time = 0], ret |-> None]
    ELSE LET top == HeapTop(tl.event_queue)
         IN  [tl |-> [tl EXCEPT !.event_queue = @ \ {top},
                                !.current_time = top[4].time],
              ret |-> Some(top[4])]

\* get_next_event leaving the clock where it is.
get_next_event_KeepsClock(tl) ==
    IF is_empty(tl)
    THEN [tl |-> tl, ret |-> None]
    ELSE LET top == HeapTop(tl.event_queue)
         IN  [tl |-> [tl EXCEPT !.event_queue = @ \ {top}],
              ret |-> Some(top[4])]

\* get_next_event: None on an empty queue, otherwise pops the least element
\* and sets the clock to its Event's time.
get_next_event(tl) ==
    IF is_empty(tl)
    THEN [tl |-> tl, ret |-> None]
    ELSE LET top == HeapTop(tl.event_queue)
         IN  [tl |-> [tl EXCEPT !.event_queue = @ \ {top},
                                !.current_time = top[4].time],
              ret |-> Some(top[4])]

\* clear also putting the clock and the counter back to 0.
clear_ResetsClock(tl) ==
    [tl EXCEPT !.event_queue = {}, !.current_time = 0, !.event_id_counter = 0]

\* clear also putting the counter back to 0.
clear_ResetsCounter(tl) == [tl EXCEPT !.event_queue = {}, !.event_id_counter = 0]

\* clear: empties the queue, and nothing else.
clear(tl) == [tl EXCEPT !.event_queue = {}]

\* reset leaving the clock where it is.
reset_KeepsClock(tl) == [clear(tl) EXCEPT !.event_id_counter = 0]

\* reset: clear, then the clock and the counter back to 0.
reset(tl) == [clear(tl) EXCEPT !.current_time = 0, !.event_id_counter = 0]

\* ------------------------------------------------- TimeLine, called directly

NoCall == [op |-> "none", args |-> <<>>, raised |-> FALSE, ret |-> None, rtime |-> None]

Call(op, args, raised, ret, rtime) ==
    [op |-> op, args |-> args, raised |-> raised, ret |-> ret, rtime |-> rtime]

\* ids of the Events in a list
RECURSIVE Ids(_)
Ids(events) == IF events = <<>> THEN <<>> ELSE <<Head(events).id>> \o Ids(Tail(events))

\* The Events of `events` that a call left in the queue: the first n, where
\* the counter grew by n.
Accepted(events, before, after) ==
    SubSeq(events, 1, after.event_id_counter - before.event_id_counter)

\* The client constructs an Event and passes it to schedule_event.  The
\* TimeLine never reads event_type, so the client's Events are all of type X.
ScheduleEvent ==
    /\ next_uid < MaxUid
    /\ \E t \in Times, p \in Priorities :
         LET e == Event(t, "X", p, next_uid + 1)
             r == schedule_event(timeline, e)
         IN  /\ timeline' = r.tl
             /\ last' = Call("schedule_event", <<e>>, r.raised, None, None)
             /\ inserted' = inserted \o Ids(Accepted(<<e>>, timeline, r.tl))
    /\ next_uid' = next_uid + 1
    /\ drained' = <<>>
    /\ clock_before' = timeline.current_time
    /\ UNCHANGED <<dispVars, simVars, genVars, poisVars, hcVars, evVars, mmVars>>

ScheduleEvents ==
    \E n \in 0..MaxBatch :
      /\ next_uid + n <= MaxUid
      /\ \E ts \in [1..n -> Times], ps \in [1..n -> Priorities] :
           LET events == [i \in 1..n |-> Event(ts[i], "X", ps[i], next_uid + i)]
               r == schedule_events(timeline, events)
           IN  /\ timeline' = r.tl
               /\ last' = Call("schedule_events", events, r.raised, None, None)
               /\ inserted' = inserted \o Ids(Accepted(events, timeline, r.tl))
      /\ next_uid' = next_uid + n
      /\ drained' = <<>>
      /\ clock_before' = timeline.current_time
      /\ UNCHANGED <<dispVars, simVars, genVars, poisVars, hcVars, evVars, mmVars>>

PeekNextEvent ==
    /\ last' = Call("peek_next_event", <<>>, FALSE, peek_next_event(timeline), None)
    /\ UNCHANGED <<timeline, inserted, drained, next_uid>>
    /\ clock_before' = timeline.current_time
    /\ UNCHANGED <<dispVars, simVars, genVars, poisVars, hcVars, evVars, mmVars>>

PeekNextTime ==
    /\ last' = Call("peek_next_time", <<>>, FALSE, None, peek_next_time(timeline))
    /\ UNCHANGED <<timeline, inserted, drained, next_uid>>
    /\ clock_before' = timeline.current_time
    /\ UNCHANGED <<dispVars, simVars, genVars, poisVars, hcVars, evVars, mmVars>>

GetNextEvent ==
    LET r == get_next_event(timeline)
    IN  /\ timeline' = r.tl
        /\ last' = Call("get_next_event", <<>>, FALSE, r.ret, None)
        /\ drained' = drained \o r.ret
        /\ UNCHANGED <<inserted, next_uid>>
        /\ clock_before' = timeline.current_time
        /\ UNCHANGED <<dispVars, simVars, genVars, poisVars, hcVars, evVars, mmVars>>

Clear ==
    /\ timeline' = clear(timeline)
    /\ last' = Call("clear", <<>>, FALSE, None, None)
    /\ inserted' = <<>>
    /\ drained' = <<>>
    /\ UNCHANGED next_uid
    /\ clock_before' = timeline.current_time
    /\ UNCHANGED <<dispVars, simVars, genVars, poisVars, hcVars, evVars, mmVars>>

Reset ==
    /\ timeline' = reset(timeline)
    /\ last' = Call("reset", <<>>, FALSE, None, None)
    /\ inserted' = <<>>
    /\ drained' = <<>>
    /\ UNCHANGED next_uid
    /\ clock_before' = timeline.current_time
    /\ UNCHANGED <<dispVars, simVars, genVars, poisVars, hcVars, evVars, mmVars>>

\* ------------------------------------------------- EventHandler, EventDispatcher

\* A handler is a record [id, event_types, out]: its id, the set of event
\* types it declares, and what its process_event returns.  process_event is
\* abstract in EventHandler; the handlers of the model are of one concrete
\* kind, which returns for the Event e one new Event per element o of `out`,
\* of type o.event_type and priority o.priority, at time e.time + o.dt.
Handler(id, types, out) == [id |-> id, event_types |-> types, out |-> out]

Out(dt, ty, p) == [dt |-> dt, event_type |-> ty, priority |-> p]

\* The handlers a client registers.
HandlerPool ==
    { Handler("hX1", {"X"}, <<Out(1, "Y", 0)>>),
      Handler("hX2", {"X"}, <<Out(0, "X", 1)>>),
      Handler("hY", {"Y"}, <<Out(0 - 1, "X", 0)>>),
      Handler("hD1", {}, <<Out(0, "Y", 0)>>),
      Handler("hD2", {}, <<>>),
      Handler("hXY", {"X", "Y"}, <<Out(1, "X", 0), Out(0, "Y", 1)>>) }

\* can_handle: the declared set is empty or holds the Event's type.
can_handle(h, e) == h.event_types = {} \/ e.event_type \in h.event_types

\* process_event of the model's handlers; the new Events take the ids
\* uid+1, uid+2, ...
process_event(h, e, uid) ==
    [i \in 1..Len(h.out) |->
        Event(e.time + h.out[i].dt, h.out[i].event_type, h.out[i].priority, uid + i)]

\* One hook of one handler having run.
Hook(h, name) == [handler |-> h.id, hook |-> name]

\* handle not calling post_handle.
handle_SkipsPostHandle(h, e, uid) ==
    IF ~can_handle(h, e)
    THEN [ret |-> <<>>, calls |-> <<>>, uid |-> uid, passed |-> None]
    ELSE LET new_events == process_event(h, e, uid)
         IN  [ret |-> new_events,
              calls |-> <<Hook(h, "pre_handle"), Hook(h, "process_event")>>,
              uid |-> uid + Len(new_events),
              passed |-> None]

\* handle, the template method: nothing when can_handle fails, otherwise
\* pre_handle, process_event, post_handle, returning what process_event did.
\* The result carries the hooks run, the id counter after the call, and the
\* list given to post_handle (None when post_handle is not called).
handle(h, e, uid) ==
    IF ~can_handle(h, e)
    THEN [ret |-> <<>>, calls |-> <<>>, uid |-> uid, passed |-> None]
    ELSE LET new_events == process_event(h, e, uid)
         IN  [ret |-> new_events,
              calls |-> <<Hook(h, "pre_handle"), Hook(h, "process_event"),
                          Hook(h, "post_handle")>>,
              uid |-> uid + Len(new_events),
              passed |-> Some(new_events)]

\* ------------------------------------------------- ChainHandler

\* The union of the event_types of a list of handlers.
TypesOf(handlers) == UNION {handlers[i].event_types : i \in 1..Len(handlers)}

\* ChainHandler.__init__: the sub-handlers, and as event_types the union of
\* theirs.
ChainHandler(id, handlers) ==
    [id |-> id, event_types |-> TypesOf(handlers), handlers |-> handlers]

\* The loop of ChainHandler.process_event putting each sub-handler's Events
\* in front of those collected so far.
RECURSIVE Chain_loop_Reversed(_, _, _)
Chain_loop_Reversed(handlers, e, acc) ==
    IF handlers = <<>>
    THEN acc
    ELSE LET h == Head(handlers)
             new_events == process_event(h, e, acc.uid)
         IN  Chain_loop_Reversed(Tail(handlers), e,
                IF can_handle(h, e)
                THEN [ret |-> new_events \o acc.ret,
                      calls |-> Append(acc.calls, Hook(h, "process_event")),
                      uid |-> acc.uid + Len(new_events)]
                ELSE acc)

\* The loop of ChainHandler.process_event: for each sub-handler in order
\* that can_handle the Event, its process_event is called and what it
\* returns is appended.  acc is [ret, calls, uid].
RECURSIVE Chain_loop(_, _, _)
Chain_loop(handlers, e, acc) ==
    IF handlers = <<>>
    THEN acc
    ELSE LET h == Head(handlers)
             new_events == process_event(h, e, acc.uid)
         IN  Chain_loop(Tail(handlers), e,
                IF can_handle(h, e)
                THEN [ret |-> acc.ret \o new_events,
                      calls |-> Append(acc.calls, Hook(h, "process_event")),
                      uid |-> acc.uid + Len(new_events)]
                ELSE acc)

\* The loop of ChainHandler.process_event calling every sub-handler.
RECURSIVE Chain_loop_Unchecked(_, _, _)
Chain_loop_Unchecked(handlers, e, acc) ==
    IF handlers = <<>>
    THEN acc
    ELSE LET h == Head(handlers)
             new_events == process_event(h, e, acc.uid)
         IN  Chain_loop_Unchecked(Tail(handlers), e,
                [ret |-> acc.ret \o new_events,
                 calls |-> Append(acc.calls, Hook(h, "process_event")),
                 uid |-> acc.uid + Len(new_events)])

\* process_event over the loop that calls every sub-handler.
Chain_process_event_Unchecked(c, e, uid) ==
    Chain_loop_Unchecked(c.handlers, e, [ret |-> <<>>, calls |-> <<>>, uid |-> uid])

\* process_event over the loop that puts new Events in front.
Chain_process_event_Reversed(c, e, uid) ==
    Chain_loop_Reversed(c.handlers, e, [ret |-> <<>>, calls |-> <<>>, uid |-> uid])

\* ChainHandler.process_event
Chain_process_event(c, e, uid) ==
    Chain_loop(c.handlers, e, [ret |-> <<>>, calls |-> <<>>, uid |-> uid])

\* handle, inherited by ChainHandler: the template method around
\* ChainHandler.process_event.
Chain_handle(c, e, uid) ==
    IF ~can_handle(c, e)
    THEN [ret |-> <<>>, calls |-> <<>>, uid |-> uid, passed |-> None]
    ELSE LET r == Chain_process_event(c, e, uid)
         IN  [ret |-> r.ret,
              calls |-> <<Hook(c, "pre_handle"), Hook(c, "process_event")>>
                            \o r.calls \o <<Hook(c, "post_handle")>>,
              uid |-> r.uid,
              passed |-> Some(r.ret)]

\* ------------------------------------------------- ConditionalHandler

\* The predicates a client gives as condition_func: each is a function of
\* the Event.
Conditions == {"type_is_X", "time_is_positive"}

\* condition_func(event) for the predicate c.
ConditionHolds(c, e) ==
    IF c = "type_is_X" THEN e.event_type = "X" ELSE e.time > 0

\* ConditionalHandler.__init__: false_handler is Optional; event_types is
\* the union of the sub-handlers'.
ConditionalHandler(id, condition_func, true_handler, false_handler) ==
    [id |-> id,
     event_types |-> true_handler.event_types \cup TypesOf(false_handler),
     condition_func |-> condition_func,
     true_handler |-> true_handler,
     false_handler |-> false_handler]

\* One sub-handler's process_event called by a composite handler.
Delegate(h, e, uid) ==
    LET new_events == process_event(h, e, uid)
    IN  [ret |-> new_events, calls |-> <<Hook(h, "process_event")>>,
         uid |-> uid + Len(new_events)]

\* process_event running the false handler whenever the true handler is
\* not run.
Conditional_process_event_FallsThrough(c, e, uid) ==
    IF ConditionHolds(c.condition_func, e) /\ can_handle(c.true_handler, e)
    THEN Delegate(c.true_handler, e, uid)
    ELSE IF c.false_handler # None /\ can_handle(c.false_handler[1], e)
    THEN Delegate(c.false_handler[1], e, uid)
    ELSE [ret |-> <<>>, calls |-> <<>>, uid |-> uid]

\* ConditionalHandler.process_event: when the condition holds, the true
\* handler's process_event if it can_handle the Event; when it does not,
\* the false handler's if there is one and it can_handle the Event; an
\* empty list otherwise.
Conditional_process_event(c, e, uid) ==
    IF ConditionHolds(c.condition_func, e)
    THEN IF can_handle(c.true_handler, e)
         THEN Delegate(c.true_handler, e, uid)
         ELSE [ret |-> <<>>, calls |-> <<>>, uid |-> uid]
    ELSE IF c.false_handler # None /\ can_handle(c.false_handler[1], e)
    THEN Delegate(c.false_handler[1], e, uid)
    ELSE [ret |-> <<>>, calls |-> <<>>, uid |-> uid]

\* handle, inherited by ConditionalHandler: the template method around
\* ConditionalHandler.process_event.
Conditional_handle(c, e, uid) ==
    IF ~can_handle(c, e)
    THEN [ret |-> <<>>, calls |-> <<>>, uid |-> uid, passed |-> None]
    ELSE LET r == Conditional_process_event(c, e, uid)
         IN  [ret |-> r.ret,
              calls |-> <<Hook(c, "pre_handle"), Hook(c, "process_event")>>
                            \o r.calls \o <<Hook(c, "post_handle")>>,
              uid |-> r.uid,
              passed |-> Some(r.ret)]

\* ------------------------------------------------- handlers, called directly

NoHandleCall ==
    [kind |-> "none", handler |-> None, event |-> None, ret |-> <<>>, calls |-> <<>>,
     passed |-> None]

HandleCall(kind, h, e, r) ==
    [kind |-> kind, handler |-> Some(h), event |-> Some(e), ret |-> r.ret,
     calls |-> r.calls, passed |-> r.passed]

\* The handlers keep no state, so handle is a function of the handler and
\* the Event: a behaviour of HandlerSpec is one call.

\* h.handle(Event(...), timeline, stats) on a handler of the pool
Handle ==
    /\ hcall = NoHandleCall
    /\ \E h \in HandlerPool, t \in Times, ty \in Types :
         LET e == Event(t, ty, 0, next_uid + 1)
             r == handle(h, e, next_uid + 1)
         IN  /\ hcall' = HandleCall("handler", h, e, r)
             /\ next_uid' = r.uid
    /\ UNCHANGED <<tlVars, dispVars, simVars, genVars, poisVars, evVars, mmVars>>

\* ChainHandler([...]).handle(Event(...), timeline, stats)
HandleChain ==
    /\ hcall = NoHandleCall
    /\ \E n \in 0..MaxChain :
         \E handlers \in [1..n -> HandlerPool], t \in Times, ty \in Types :
           LET c == ChainHandler("chain", handlers)
               e == Event(t, ty, 0, next_uid + 1)
               r == Chain_handle(c, e, next_uid + 1)
           IN  /\ hcall' = HandleCall("chain", c, e, r)
               /\ next_uid' = r.uid
    /\ UNCHANGED <<tlVars, dispVars, simVars, genVars, poisVars, evVars, mmVars>>

\* ConditionalHandler(condition_func, true_handler[, false_handler])
\*     .handle(Event(...), timeline, stats), with two distinct sub-handlers
HandleConditional ==
    /\ hcall = NoHandleCall
    /\ \E cf \in Conditions, th \in HandlerPool, t \in Times, ty \in Types :
         \E fh \in {None} \cup {Some(h) : h \in HandlerPool \ {th}} :
           LET c == ConditionalHandler("conditional", cf, th, fh)
               e == Event(t, ty, 0, next_uid + 1)
               r == Conditional_handle(c, e, next_uid + 1)
           IN  /\ hcall' = HandleCall("conditional", c, e, r)
               /\ next_uid' = r.uid
    /\ UNCHANGED <<tlVars, dispVars, simVars, genVars, poisVars, evVars, mmVars>>

\* EventDispatcher.__init__: no handlers by type (an empty dict), no default
\* handlers.
EventDispatcher == [handlers |-> [t \in {} |-> <<>>], default_handlers |-> <<>>]

\* register_handler: a handler declaring no type goes to default_handlers;
\* any other is appended to the list of each type it declares.
register_handler(d, h) ==
    IF h.event_types = {}
    THEN [d EXCEPT !.default_handlers = Append(@, h)]
    ELSE [d EXCEPT !.handlers =
            [t \in DOMAIN @ \cup h.event_types |->
                IF t \in h.event_types
                THEN Append(IF t \in DOMAIN @ THEN @[t] ELSE <<>>, h)
                ELSE @[t]]]

\* One `for handler in ...: all_new_events.extend(handler.handle(...))` loop,
\* from the accumulated result acc.
RECURSIVE HandleEach(_, _, _)
HandleEach(hs, e, acc) ==
    IF hs = <<>>
    THEN acc
    ELSE LET r == handle(Head(hs), e, acc.uid)
         IN  HandleEach(Tail(hs), e,
                        [ret |-> acc.ret \o r.ret,
                         calls |-> acc.calls \o r.calls,
                         uid |-> r.uid])

\* dispatch with the default handlers run before the handlers of the type.
dispatch_DefaultsFirst(d, e, uid) ==
    LET first == HandleEach(d.default_handlers, e,
                            [ret |-> <<>>, calls |-> <<>>, uid |-> uid])
    IN  HandleEach(IF e.event_type \in DOMAIN d.handlers
                   THEN d.handlers[e.event_type] ELSE <<>>, e, first)

\* dispatch with the default handlers run only for a type no handler declares.
dispatch_DefaultsAsFallback(d, e, uid) ==
    IF e.event_type \in DOMAIN d.handlers
    THEN HandleEach(d.handlers[e.event_type], e,
                    [ret |-> <<>>, calls |-> <<>>, uid |-> uid])
    ELSE HandleEach(d.default_handlers, e,
                    [ret |-> <<>>, calls |-> <<>>, uid |-> uid])

\* dispatch: the handlers filed under the Event's type, then the default
\* handlers; returns the Events they returned, in that order.
dispatch(d, e, uid) ==
    LET typed == IF e.event_type \in DOMAIN d.handlers
                 THEN HandleEach(d.handlers[e.event_type], e,
                                 [ret |-> <<>>, calls |-> <<>>, uid |-> uid])
                 ELSE [ret |-> <<>>, calls |-> <<>>, uid |-> uid]
    IN  HandleEach(d.default_handlers, e, typed)

\* --------------------------------------------- EventDispatcher, called directly

NoDispatch == [event |-> None, ret |-> <<>>, calls |-> <<>>]

RegisterHandler ==
    /\ Len(registered) < MaxHandlers
    /\ \E h \in HandlerPool :
         /\ dispatcher' = register_handler(dispatcher, h)
         /\ registered' = Append(registered, h)
    /\ disp' = NoDispatch
    /\ UNCHANGED next_uid
    /\ UNCHANGED <<tlVars, simVars, genVars, poisVars, hcVars, evVars, mmVars>>

Dispatch ==
    /\ \E t \in Times, ty \in Types :
         LET e == Event(t, ty, 0, next_uid + 1)
             r == dispatch(dispatcher, e, next_uid + 1)
         IN  /\ r.uid <= MaxDispatchUid
             /\ disp' = [event |-> Some(e), ret |-> r.ret, calls |-> r.calls]
             /\ next_uid' = r.uid
    /\ UNCHANGED <<dispatcher, registered>>
    /\ UNCHANGED <<tlVars, simVars, genVars, poisVars, hcVars, evVars, mmVars>>

\* ------------------------------------------------- ScheduledEventGenerator

\* sorted(schedule), by insertion.
RECURSIVE Insert(_, _)
Insert(sorted, x) ==
    IF sorted = <<>> THEN <<x>>
    ELSE IF x < Head(sorted) THEN <<x>> \o sorted
    ELSE <<Head(sorted)>> \o Insert(Tail(sorted), x)

RECURSIVE Sorted(_)
Sorted(schedule) ==
    IF schedule = <<>> THEN <<>>
    ELSE Insert(Sorted(SubSeq(schedule, 1, Len(schedule) - 1)), schedule[Len(schedule)])

\* ScheduledEventGenerator.__init__: the schedule is sorted, the cursor
\* current_index (counted from 0, as in the code) starts at 0.
ScheduledEventGenerator(id, ty, schedule, p) ==
    [id |-> id, event_type |-> ty, schedule |-> Sorted(schedule),
     current_index |-> 0, priority |-> p]

\* The `while` of generate_next_time: the cursor moves on while the entry
\* under it is not after current_time and is not the last one.
RECURSIVE SkipStale(_, _, _)
SkipStale(schedule, index, current_time) ==
    IF schedule[index + 1] <= current_time /\ index < Len(schedule) - 1
    THEN SkipStale(schedule, index + 1, current_time)
    ELSE index

\* generate_next_time returning None without marking the generator as
\* finished.
Scheduled_generate_next_time_NotMarked(g, current_time) ==
    IF g.current_index >= Len(g.schedule)
    THEN [g |-> g, ret |-> None]
    ELSE LET index == SkipStale(g.schedule, g.current_index, current_time)
             next_time == g.schedule[index + 1]
         IN  IF next_time <= current_time
             THEN [g |-> g, ret |-> None]
             ELSE [g |-> [g EXCEPT !.current_index = index], ret |-> Some(next_time)]

\* ScheduledEventGenerator.generate_next_time: the generator after the call
\* and the Optional time returned.
Scheduled_generate_next_time(g, current_time) ==
    IF g.current_index >= Len(g.schedule)
    THEN [g |-> g, ret |-> None]
    ELSE LET index == SkipStale(g.schedule, g.current_index, current_time)
             next_time == g.schedule[index + 1]
         IN  IF next_time <= current_time
             THEN [g |-> [g EXCEPT !.current_index = Len(g.schedule)], ret |-> None]
             ELSE [g |-> [g EXCEPT !.current_index = index], ret |-> Some(next_time)]

\* generate leaving the cursor on the entry it returned.
Scheduled_generate_NoAdvance(g, current_time, uid) ==
    LET r == Scheduled_generate_next_time(g, current_time)
    IN  IF r.ret = None
        THEN [g |-> r.g, ret |-> None]
        ELSE [g |-> r.g,
              ret |-> Some(Event(r.ret[1], g.event_type, g.priority, uid + 1))]

\* ScheduledEventGenerator.generate: the generator after the call and the
\* Optional Event returned, which takes the id uid + 1.
Scheduled_generate(g, current_time, uid) ==
    LET r == Scheduled_generate_next_time(g, current_time)
    IN  IF r.ret = None
        THEN [g |-> r.g, ret |-> None]
        ELSE [g |-> [r.g EXCEPT !.current_index = @ + 1],
              ret |-> Some(Event(r.ret[1], g.event_type, g.priority, uid + 1))]

\* The generators a client adds to a Simulator.
GeneratorPool ==
    { ScheduledEventGenerator("gX", "X", <<2, 1>>, 0),
      ScheduledEventGenerator("gY", "Y", <<0, 1>>, 1) }

\* ------------------------------------------------- CompositeEventGenerator

\* CompositeEventGenerator.__init__ (the cache _next_events is never read).
CompositeEventGenerator(gens) == [generators |-> gens]

\* The loop of CompositeEventGenerator.generate_next_time keeping the first
\* time a child gives, without comparing.
RECURSIVE Composite_min_time_First(_, _, _)
Composite_min_time_First(gens, current_time, acc) ==
    IF gens = <<>>
    THEN acc
    ELSE LET r == Scheduled_generate_next_time(Head(gens), current_time)
             better == r.ret # None /\ acc.min_time = None
         IN  Composite_min_time_First(Tail(gens), current_time,
                [generators |-> Append(acc.generators, r.g),
                 min_time |-> IF better THEN r.ret ELSE acc.min_time])

\* The loop of CompositeEventGenerator.generate_next_time: each child's
\* generate_next_time in list order, keeping the least time seen.  acc is
\* [generators, min_time], with the children already called in
\* acc.generators.
RECURSIVE Composite_min_time(_, _, _)
Composite_min_time(gens, current_time, acc) ==
    IF gens = <<>>
    THEN acc
    ELSE LET r == Scheduled_generate_next_time(Head(gens), current_time)
             better == r.ret # None /\ (acc.min_time = None \/ r.ret[1] < acc.min_time[1])
         IN  Composite_min_time(Tail(gens), current_time,
                [generators |-> Append(acc.generators, r.g),
                 min_time |-> IF better THEN r.ret ELSE acc.min_time])

\* generate_next_time over the loop that does not compare.
Composite_generate_next_time_First(c, current_time) ==
    LET s == Composite_min_time_First(c.generators, current_time,
                 [generators |-> <<>>, min_time |-> None])
    IN  [g |-> [c EXCEPT !.generators = s.generators], ret |-> s.min_time]

\* CompositeEventGenerator.generate_next_time: the composite after the call
\* and the Optional time returned.
Composite_generate_next_time(c, current_time) ==
    LET s == Composite_min_time(c.generators, current_time,
                 [generators |-> <<>>, min_time |-> None])
    IN  [g |-> [c EXCEPT !.generators = s.generators], ret |-> s.min_time]

\* The loop of CompositeEventGenerator.generate selecting the first child
\* that gives a time, without comparing.
RECURSIVE Composite_select_First(_, _, _)
Composite_select_First(gens, current_time, acc) ==
    IF gens = <<>>
    THEN acc
    ELSE LET r == Scheduled_generate_next_time(Head(gens), current_time)
             better == r.ret # None /\ acc.min_time = None
         IN  Composite_select_First(Tail(gens), current_time,
                [generators |-> Append(acc.generators, r.g),
                 min_time |-> IF better THEN r.ret ELSE acc.min_time,
                 selected |-> IF better THEN Len(acc.generators) + 1 ELSE acc.selected])

\* The loop of CompositeEventGenerator.generate: as above, remembering the
\* child that gave the least time (the first of them on a tie); selected is
\* its position, 0 for None.
RECURSIVE Composite_select(_, _, _)
Composite_select(gens, current_time, acc) ==
    IF gens = <<>>
    THEN acc
    ELSE LET r == Scheduled_generate_next_time(Head(gens), current_time)
             better == r.ret # None /\ (acc.min_time = None \/ r.ret[1] < acc.min_time[1])
         IN  Composite_select(Tail(gens), current_time,
                [generators |-> Append(acc.generators, r.g),
                 min_time |-> IF better THEN r.ret ELSE acc.min_time,
                 selected |-> IF better THEN Len(acc.generators) + 1 ELSE acc.selected])

\* generate over the loop that does not compare.
Composite_generate_First(c, current_time, uid) ==
    LET s == Composite_select_First(c.generators, current_time,
                 [generators |-> <<>>, min_time |-> None, selected |-> 0])
    IN  IF s.selected = 0
        THEN [g |-> [c EXCEPT !.generators = s.generators], ret |-> None, selected |-> 0]
        ELSE LET r == Scheduled_generate(s.generators[s.selected], current_time, uid)
             IN  [g |-> [c EXCEPT !.generators =
                                     [s.generators EXCEPT ![s.selected] = r.g]],
                  ret |-> r.ret, selected |-> s.selected]

\* CompositeEventGenerator.generate: the composite after the call and the
\* Optional Event returned, which is what the selected child's generate
\* returns.
Composite_generate(c, current_time, uid) ==
    LET s == Composite_select(c.generators, current_time,
                 [generators |-> <<>>, min_time |-> None, selected |-> 0])
    IN  IF s.selected = 0
        THEN [g |-> [c EXCEPT !.generators = s.generators], ret |-> None, selected |-> 0]
        ELSE LET r == Scheduled_generate(s.generators[s.selected], current_time, uid)
             IN  [g |-> [c EXCEPT !.generators =
                                     [s.generators EXCEPT ![s.selected] = r.g]],
                  ret |-> r.ret, selected |-> s.selected]

\* The schedules a client gives to the ScheduledEventGenerators of a
\* composite: empty, a repeated time, unsorted, starting at 0.
SchedulePool == {<<>>, <<1, 1>>, <<3, 1>>, <<2, 4>>, <<0, 2>>}

NoGenCall ==
    [target |-> 0, op |-> "none", current_time |-> 0, ret |-> None, rtime |-> None]

GenCall(target, op, current_time, ret, rtime) ==
    [target |-> target, op |-> op, current_time |-> current_time, ret |-> ret,
     rtime |-> rtime]

\* The ghost of the generate calls on the composite: recording is on from
\* the construction until another method is called, the current_time
\* changes, or MaxGenCalls results are recorded; times holds the Optional
\* time of the Event each call returned.
NoStream == [on |-> FALSE, current_time |-> None, times |-> <<>>]

\* CompositeEventGenerator([ScheduledEventGenerator("X", schedule), ...])
NewComposite ==
    /\ composite = None
    /\ \E n \in 0..MaxChildren :
         \E schedules \in [1..n -> SchedulePool] :
           composite' = Some(CompositeEventGenerator(
               [i \in 1..n |-> ScheduledEventGenerator("g", "X", schedules[i], 0)]))
    /\ gcall' = NoGenCall
    /\ stream' = [NoStream EXCEPT !.on = TRUE]
    /\ emitted' = [i \in 1..Len(composite'[1].generators) |-> <<>>]
    /\ UNCHANGED <<tlVars, dispVars, simVars, next_uid, poisVars, hcVars, evVars, mmVars>>

\* composite.generate(t)
CompositeGenerate ==
    /\ composite # None
    /\ \E t \in Times :
         LET r == Composite_generate(composite[1], t, next_uid)
             time == IF r.ret = None THEN None ELSE Some(r.ret[1].time)
         IN  /\ composite' = Some(r.g)
             /\ gcall' = GenCall(0, "generate", t, r.ret, None)
             /\ next_uid' = next_uid + Len(r.ret)
             /\ emitted' = IF r.ret = None THEN emitted
                           ELSE [emitted EXCEPT ![r.selected] = Append(@, r.ret[1].time)]
             /\ stream' = IF /\ stream.on
                             /\ stream.current_time \in {None, Some(t)}
                             /\ Len(stream.times) < MaxGenCalls
                          THEN [on |-> TRUE, current_time |-> Some(t),
                                times |-> Append(stream.times, time)]
                          ELSE NoStream
    /\ UNCHANGED <<tlVars, dispVars, simVars, poisVars, hcVars, evVars, mmVars>>

\* composite.generate_next_time(t)
CompositeGenerateNextTime ==
    /\ composite # None
    /\ \E t \in Times :
         LET r == Composite_generate_next_time(composite[1], t)
         IN  /\ composite' = Some(r.g)
             /\ gcall' = GenCall(0, "generate_next_time", t, None, r.ret)
    /\ stream' = NoStream
    /\ UNCHANGED emitted
    /\ UNCHANGED <<tlVars, dispVars, simVars, next_uid, poisVars, hcVars, evVars, mmVars>>

\* composite.generators[i - 1].generate(t)
ScheduledGenerate ==
    /\ composite # None
    /\ \E i \in 1..Len(composite[1].generators), t \in Times :
         LET r == Scheduled_generate(composite[1].generators[i], t, next_uid)
         IN  /\ composite' = Some([composite[1] EXCEPT !.generators[i] = r.g])
             /\ gcall' = GenCall(i, "generate", t, r.ret, None)
             /\ next_uid' = next_uid + Len(r.ret)
             /\ emitted' = IF r.ret = None THEN emitted
                           ELSE [emitted EXCEPT ![i] = Append(@, r.ret[1].time)]
    /\ stream' = NoStream
    /\ UNCHANGED <<tlVars, dispVars, simVars, poisVars, hcVars, evVars, mmVars>>

\* composite.generators[i - 1].generate_next_time(t)
ScheduledGenerateNextTime ==
    /\ composite # None
    /\ \E i \in 1..Len(composite[1].generators), t \in Times :
         LET r == Scheduled_generate_next_time(composite[1].generators[i], t)
         IN  /\ composite' = Some([composite[1] EXCEPT !.generators[i] = r.g])
             /\ gcall' = GenCall(i, "generate_next_time", t, None, r.ret)
    /\ stream' = NoStream
    /\ UNCHANGED emitted
    /\ UNCHANGED <<tlVars, dispVars, simVars, next_uid, poisVars, hcVars, evVars, mmVars>>

\* ------------------------------------------------- PoissonEventGenerator

\* PoissonEventGenerator.__init__; max_time is Optional.
PoissonEventGenerator(ty, rate, horizon, p) ==
    [event_type |-> ty, rate |-> rate, max_time |-> horizon, priority |-> p]

\* The values random.expovariate(rate) can give, for rate > 0: any interval
\* >= 0.
Deltas == 0..MaxDelta

\* generate_next_time refusing a time equal to max_time.
Poisson_generate_next_time_HorizonExclusive(g, current_time, time_delta) ==
    IF g.max_time # None /\ current_time >= g.max_time[1]
    THEN [ret |-> None, drawn |-> None]
    ELSE IF g.rate <= 0
    THEN [ret |-> None, drawn |-> None]
    ELSE LET next_time == current_time + time_delta
         IN  IF g.max_time # None /\ next_time >= g.max_time[1]
             THEN [ret |-> None, drawn |-> Some(time_delta)]
             ELSE [ret |-> Some(next_time), drawn |-> Some(time_delta)]

\* PoissonEventGenerator.generate_next_time, where time_delta is what
\* random.expovariate gives if it is called: the Optional time returned, and
\* the interval drawn, None if the call returned before drawing.
Poisson_generate_next_time(g, current_time, time_delta) ==
    IF g.max_time # None /\ current_time >= g.max_time[1]
    THEN [ret |-> None, drawn |-> None]
    ELSE IF g.rate <= 0
    THEN [ret |-> None, drawn |-> None]
    ELSE LET next_time == current_time + time_delta
         IN  IF g.max_time # None /\ next_time > g.max_time[1]
             THEN [ret |-> None, drawn |-> Some(time_delta)]
             ELSE [ret |-> Some(next_time), drawn |-> Some(time_delta)]

\* PoissonEventGenerator.generate: the Optional Event returned, which takes
\* the id uid + 1, and the interval drawn.
Poisson_generate(g, current_time, time_delta, uid) ==
    LET r == Poisson_generate_next_time(g, current_time, time_delta)
    IN  IF r.ret = None
        THEN [ret |-> None, drawn |-> r.drawn]
        ELSE [ret |-> Some(Event(r.ret[1], g.event_type, g.priority, uid + 1)),
              drawn |-> r.drawn]

\* The rates a client gives: negative, 0, positive.
Rates == {0 - 1, 0, 1, 2}

NoPoissonCall ==
    [op |-> "none", current_time |-> 0, drawn |-> None, ret |-> None, rtime |-> None]

PoissonCall(op, current_time, drawn, ret, rtime) ==
    [op |-> op, current_time |-> current_time, drawn |-> drawn, ret |-> ret,
     rtime |-> rtime]

\* PoissonEventGenerator("X", rate) or PoissonEventGenerator("X", rate, max_time)
NewPoisson ==
    /\ poisson = None
    /\ \E rate \in Rates, horizon \in {None} \cup {Some(t) : t \in Times} :
         poisson' = Some(PoissonEventGenerator("X", rate, horizon, 0))
    /\ pcall' = NoPoissonCall
    /\ UNCHANGED <<tlVars, dispVars, simVars, genVars, next_uid, hcVars, evVars, mmVars>>

\* poisson.generate_next_time(t)
PoissonGenerateNextTime ==
    /\ poisson # None
    /\ \E t \in Times, time_delta \in Deltas :
         LET r == Poisson_generate_next_time(poisson[1], t, time_delta)
         IN  pcall' = PoissonCall("generate_next_time", t, r.drawn, None, r.ret)
    /\ UNCHANGED <<tlVars, dispVars, simVars, genVars, next_uid, poisson, hcVars, evVars, mmVars>>

\* poisson.generate(t)
PoissonGenerate ==
    /\ poisson # None
    /\ \E t \in Times, time_delta \in Deltas :
         LET r == Poisson_generate(poisson[1], t, time_delta, next_uid)
         IN  /\ next_uid + Len(r.ret) <= MaxUid
             /\ pcall' = PoissonCall("generate", t, r.drawn, r.ret, None)
             /\ next_uid' = next_uid + Len(r.ret)
    /\ UNCHANGED <<tlVars, dispVars, simVars, genVars, poisson, hcVars, evVars, mmVars>>

\* ---------------------------------------------------------------- Simulator

\* The handlers a client adds to a Simulator.
SimHandlerPool ==
    { Handler("hX", {"X"}, <<Out(1, "Y", 0), Out(0 - 1, "X", 0)>>),
      Handler("hY", {"Y"}, <<Out(0, "X", 1)>>),
      Handler("hD", {}, <<Out(1, "X", 0)>>) }

\* The stop predicates a client sets: each is a function of the TimeLine it
\* is given.
StopConditions ==
    {[kind |-> "clock_at_least", k |-> k] : k \in 1..MaxTime}
        \cup {[kind |-> "queue_is_empty", k |-> 0]}

\* stop_condition(timeline, stats) for the predicate c.
StopHolds(c, tl) ==
    IF c.kind = "clock_at_least" THEN tl.current_time >= c.k ELSE is_empty(tl)

\* Stats after __init__ or reset(): no custom statistic.
Stats == [processed_events |-> None, final_simulation_time |-> None]

\* The ghost record of a run:
\*   seeded      the Events the generators gave in initialize()
\*   popped      the Events get_next_event returned, in order
\*   dispatched  the Events passed to dispatch, in order
\*   stop_evals  the calls of the stop predicate: the popped Event, the clock
\*               of the TimeLine it was given, the number of Events
\*               dispatched before the call, and its result
\*   produced    the Events dispatch returned, each with the clock at that time
\*   admitted    those of them passed to schedule_event
\*   dropped     those of them skipped
\*   queried     the generate calls the Simulator made: the position of the
\*               generator in Simulator.generators, the current_time passed,
\*               and the Optional Event returned
\*   started_from  pc when run() was called
\*   dispatched_at timeline.current_time at each call of dispatch
NoTrace ==
    [seeded |-> <<>>, popped |-> <<>>, dispatched |-> <<>>, stop_evals |-> <<>>,
     produced |-> <<>>, admitted |-> <<>>, dropped |-> <<>>, queried |-> <<>>,
     started_from |-> "idle", dispatched_at |-> <<>>]

\* generate_initial_events: generate(current_time) on each generator in
\* order, scheduling each Event produced.  acc is [generators, tl, uid,
\* seeded, queried, raised], with the generators already queried in
\* acc.generators.
RECURSIVE generate_initial_events(_, _, _)
generate_initial_events(gens, current_time, acc) ==
    IF gens = <<>> \/ acc.raised
    THEN acc
    ELSE LET r == Scheduled_generate(Head(gens), current_time, acc.uid)
             s == IF r.ret = None
                  THEN [tl |-> acc.tl, raised |-> FALSE]
                  ELSE schedule_event(acc.tl, r.ret[1])
         IN  generate_initial_events(Tail(gens), current_time,
                [generators |-> Append(acc.generators, r.g),
                 tl |-> s.tl,
                 uid |-> acc.uid + Len(r.ret),
                 seeded |-> acc.seeded \o r.ret,
                 queried |-> Append(acc.queried,
                                [generator |-> Len(acc.generators) + 1,
                                 current_time |-> current_time,
                                 ret |-> r.ret]),
                 raised |-> s.raised])

\* initialize without timeline.reset().
initialize_KeepsTimeline(gens, tl, uid) ==
    generate_initial_events(gens, tl.current_time,
        [generators |-> <<>>, tl |-> tl, uid |-> uid, seeded |-> <<>>,
         queried |-> <<>>, raised |-> FALSE])

\* initialize: timeline.reset(), stats.reset() (in RunStart),
\* generate_initial_events().
initialize(gens, tl, uid) ==
    generate_initial_events(gens, reset(tl).current_time,
        [generators |-> <<>>, tl |-> reset(tl), uid |-> uid, seeded |-> <<>>,
         queried |-> <<>>, raised |-> FALSE])

\* One call of the stop predicate, as the ghost records it.
StopEval(event, tl, ndispatched) ==
    [event |-> event, clock |-> tl.current_time,
     ndispatched |-> ndispatched,
     result |-> StopHolds(stop_condition[1], tl)]

\* The three stop checks with the event limit checked before the time limit.
stop_checks_EventLimitFirst(event, n, tl, ndispatched) ==
    IF n > max_events
    THEN [reason |-> "events", evals |-> <<>>]
    ELSE IF event.time > max_time
    THEN [reason |-> "time", evals |-> <<>>]
    ELSE IF stop_condition # None
    THEN LET ev == StopEval(event, tl, ndispatched)
         IN  [reason |-> IF ev.result THEN "custom" ELSE "none", evals |-> <<ev>>]
    ELSE [reason |-> "none", evals |-> <<>>]

\* The three stop checks with an Event at max_time taken as past the limit.
stop_checks_TimeLimitInclusive(event, n, tl, ndispatched) ==
    IF event.time >= max_time
    THEN [reason |-> "time", evals |-> <<>>]
    ELSE IF n > max_events
    THEN [reason |-> "events", evals |-> <<>>]
    ELSE IF stop_condition # None
    THEN LET ev == StopEval(event, tl, ndispatched)
         IN  [reason |-> IF ev.result THEN "custom" ELSE "none", evals |-> <<ev>>]
    ELSE [reason |-> "none", evals |-> <<>>]

\* The three stop checks with the event limit reached at the N-th Event.
stop_checks_EventLimitInclusive(event, n, tl, ndispatched) ==
    IF event.time > max_time
    THEN [reason |-> "time", evals |-> <<>>]
    ELSE IF n >= max_events
    THEN [reason |-> "events", evals |-> <<>>]
    ELSE IF stop_condition # None
    THEN LET ev == StopEval(event, tl, ndispatched)
         IN  [reason |-> IF ev.result THEN "custom" ELSE "none", evals |-> <<ev>>]
    ELSE [reason |-> "none", evals |-> <<>>]

\* The stop checks without the event limit.
stop_checks_NoEventLimit(event, n, tl, ndispatched) ==
    IF event.time > max_time
    THEN [reason |-> "time", evals |-> <<>>]
    ELSE IF stop_condition # None
    THEN LET ev == StopEval(event, tl, ndispatched)
         IN  [reason |-> IF ev.result THEN "custom" ELSE "none", evals |-> <<ev>>]
    ELSE [reason |-> "none", evals |-> <<>>]

\* The three stop checks of the loop body for the popped Event, the n-th of
\* the run, with tl the TimeLine after the pop: which break is taken ("none"
\* when none is) and the calls of the stop predicate made.
stop_checks(event, n, tl, ndispatched) ==
    IF event.time > max_time
    THEN [reason |-> "time", evals |-> <<>>]
    ELSE IF n > max_events
    THEN [reason |-> "events", evals |-> <<>>]
    ELSE IF stop_condition # None
    THEN LET ev == StopEval(event, tl, ndispatched)
         IN  [reason |-> IF ev.result THEN "custom" ELSE "none", evals |-> <<ev>>]
    ELSE [reason |-> "none", evals |-> <<>>]

\* The loop over new_events passing every Event to schedule_event.
RECURSIVE add_new_events_Unfiltered(_, _)
add_new_events_Unfiltered(new_events, acc) ==
    IF new_events = <<>> \/ acc.raised
    THEN acc
    ELSE LET r == schedule_event(acc.tl, Head(new_events))
         IN  add_new_events_Unfiltered(Tail(new_events),
                [acc EXCEPT !.tl = r.tl, !.raised = r.raised,
                            !.admitted = Append(@, Head(new_events))])

\* The loop over new_events at the end of the loop body: an Event not before
\* the clock is passed to schedule_event, any other is skipped.  acc is
\* [tl, admitted, dropped, raised]; an exception of schedule_event ends it.
RECURSIVE add_new_events(_, _)
add_new_events(new_events, acc) ==
    IF new_events = <<>> \/ acc.raised
    THEN acc
    ELSE LET new_event == Head(new_events)
         IN  IF new_event.time >= acc.tl.current_time
             THEN LET r == schedule_event(acc.tl, new_event)
                  IN  add_new_events(Tail(new_events),
                         [acc EXCEPT !.tl = r.tl, !.raised = r.raised,
                                     !.admitted = Append(@, new_event)])
             ELSE add_new_events(Tail(new_events),
                     [acc EXCEPT !.dropped = Append(@, new_event)])

\* The breaking iteration counting the discarded Event as dispatched.
Break_CountsDispatch(tl, event, checks, uid) ==
    [tl |-> tl, popped |-> event, reason |-> checks.reason, evals |-> checks.evals,
     dispatched |-> <<event>>, produced |-> <<>>, admitted |-> <<>>, dropped |-> <<>>,
     raised |-> FALSE, uid |-> uid, dispatched_at |-> <<tl.current_time>>]

\* The breaking iteration emptying the queue as it leaves the loop.
Break_ClearsQueue(tl, event, checks, uid) ==
    [tl |-> clear(tl), popped |-> event, reason |-> checks.reason, evals |-> checks.evals,
     dispatched |-> <<>>, produced |-> <<>>, admitted |-> <<>>, dropped |-> <<>>,
     raised |-> FALSE, uid |-> uid, dispatched_at |-> <<>>]

\* The result of a loop iteration that breaks for `reason`.
Break(tl, event, checks, uid) ==
    [tl |-> tl, popped |-> event, reason |-> checks.reason, evals |-> checks.evals,
     dispatched |-> <<>>, produced |-> <<>>, admitted |-> <<>>, dropped |-> <<>>,
     raised |-> FALSE, uid |-> uid, dispatched_at |-> <<>>]

\* The dispatching iteration leaving the new Events out of the TimeLine.
DispatchAndSchedule_NotInserted(tl, event, checks, uid) ==
    LET d == dispatch(dispatcher, event, uid)
        a == add_new_events(d.ret,
                [tl |-> tl, admitted |-> <<>>, dropped |-> <<>>, raised |-> FALSE])
    IN  [tl |-> tl, popped |-> event, reason |-> "none", evals |-> checks.evals,
         dispatched |-> <<event>>,
         produced |-> [i \in 1..Len(d.ret) |->
                          [event |-> d.ret[i], at |-> tl.current_time]],
         admitted |-> a.admitted, dropped |-> a.dropped,
         raised |-> a.raised, uid |-> d.uid,
         dispatched_at |-> <<tl.current_time>>]

\* The result of a loop iteration that dispatches the Event.
DispatchAndSchedule(tl, event, checks, uid) ==
    LET d == dispatch(dispatcher, event, uid)
        a == add_new_events(d.ret,
                [tl |-> tl, admitted |-> <<>>, dropped |-> <<>>, raised |-> FALSE])
    IN  [tl |-> a.tl, popped |-> event, reason |-> "none", evals |-> checks.evals,
         dispatched |-> <<event>>,
         produced |-> [i \in 1..Len(d.ret) |->
                          [event |-> d.ret[i], at |-> tl.current_time]],
         admitted |-> a.admitted, dropped |-> a.dropped,
         raised |-> a.raised, uid |-> d.uid,
         dispatched_at |-> <<tl.current_time>>]

\* The loop body with the stop predicate called before the Event is popped.
loop_body_StopCheckedBeforePop(tl, n, ndispatched, uid) ==
    LET r == get_next_event(tl)
        event == r.ret[1]
        checks == stop_checks(event, n + 1, tl, ndispatched)
    IN  IF checks.reason # "none"
        THEN Break(r.tl, event, checks, uid)
        ELSE DispatchAndSchedule(r.tl, event, checks, uid)

\* One iteration of run()'s loop on a non-empty TimeLine tl, with n Events
\* popped and ndispatched dispatched before it: pop, count, the stop checks,
\* then dispatch and the scheduling of the new Events.
loop_body(tl, n, ndispatched, uid) ==
    LET r == get_next_event(tl)
        event == r.ret[1]
        checks == stop_checks(event, n + 1, r.tl, ndispatched)
    IN  IF checks.reason # "none"
        THEN Break(r.tl, event, checks, uid)
        ELSE DispatchAndSchedule(r.tl, event, checks, uid)

AddGenerator ==
    /\ pc = "idle"
    /\ Len(generators) < MaxGenerators
    /\ \E g \in GeneratorPool : generators' = Append(generators, g)
    /\ UNCHANGED <<max_time, max_events, stop_condition, stats, pc,
                   processed_events, stop_reason, trace, history>>
    /\ UNCHANGED <<tlVars, dispVars, genVars, next_uid, poisVars, hcVars, evVars, mmVars>>

AddHandler ==
    /\ pc = "idle"
    /\ Len(registered) < MaxSimHandlers
    /\ \E h \in SimHandlerPool :
         /\ dispatcher' = register_handler(dispatcher, h)
         /\ registered' = Append(registered, h)
    /\ UNCHANGED <<tlVars, disp, next_uid, simVars, genVars, poisVars, hcVars, evVars, mmVars>>

SetMaxTime ==
    /\ pc = "idle"
    /\ \E t \in Times : max_time' = t
    /\ UNCHANGED <<generators, max_events, stop_condition, stats, pc,
                   processed_events, stop_reason, trace, history>>
    /\ UNCHANGED <<tlVars, dispVars, genVars, next_uid, poisVars, hcVars, evVars, mmVars>>

SetMaxEvents ==
    /\ pc = "idle"
    /\ \E n \in 0..MaxEventLimit : max_events' = n
    /\ UNCHANGED <<generators, max_time, stop_condition, stats, pc,
                   processed_events, stop_reason, trace, history>>
    /\ UNCHANGED <<tlVars, dispVars, genVars, next_uid, poisVars, hcVars, evVars, mmVars>>

SetStopCondition ==
    /\ pc = "idle"
    /\ \E c \in StopConditions : stop_condition' = Some(c)
    /\ UNCHANGED <<generators, max_time, max_events, stats, pc,
                   processed_events, stop_reason, trace, history>>
    /\ UNCHANGED <<tlVars, dispVars, genVars, next_uid, poisVars, hcVars, evVars, mmVars>>

\* run(), up to the loop: initialize() and processed_events = 0.  run() is
\* called on a new Simulator, on one whose last run() returned, or after
\* reset().
RunStart ==
    /\ pc \in {"idle", "done", "ready"}
    /\ Len(history) < MaxRuns
    /\ LET r == initialize(generators, timeline, next_uid)
       IN  /\ r.uid <= MaxSimUid
           /\ timeline' = r.tl
           /\ generators' = r.generators
           /\ next_uid' = r.uid
           /\ trace' = [NoTrace EXCEPT !.seeded = r.seeded,
                                       !.queried = r.queried,
                                       !.started_from = pc]
           /\ pc' = IF r.raised THEN "failed" ELSE "running"
    /\ stats' = Stats
    /\ processed_events' = 0
    /\ stop_reason' = "none"
    /\ UNCHANGED <<max_time, max_events, stop_condition>>
    /\ UNCHANGED <<last, inserted, drained, clock_before, dispVars, genVars, history, poisVars, hcVars, evVars, mmVars>>

\* The (event_type, time) of the Events of a list.
TypesAndTimes(events) ==
    [i \in 1..Len(events) |-> [event_type |-> events[i].event_type, time |-> events[i].time]]

\* run(), one iteration of the loop.
RunStep ==
    /\ pc = "running"
    /\ ~is_empty(timeline)
    /\ LET r == loop_body(timeline, processed_events, Len(trace.dispatched), next_uid)
       IN  /\ r.uid <= MaxSimUid
           /\ timeline' = r.tl
           /\ next_uid' = r.uid
           /\ processed_events' = processed_events + 1
           /\ stop_reason' = r.reason
           /\ trace' = [trace EXCEPT
                          !.popped = Append(@, r.popped),
                          !.dispatched = @ \o r.dispatched,
                          !.stop_evals = @ \o r.evals,
                          !.produced = @ \o r.produced,
                          !.admitted = @ \o r.admitted,
                          !.dropped = @ \o r.dropped,
                          !.dispatched_at = @ \o r.dispatched_at]
           /\ pc' = IF r.raised THEN "failed"
                    ELSE IF r.reason # "none" THEN "stopped"
                    ELSE "running"
    /\ UNCHANGED <<generators, max_time, max_events, stop_condition, stats>>
    /\ UNCHANGED <<last, inserted, drained, clock_before, dispVars, genVars, history, poisVars, hcVars, evVars, mmVars>>

\* run(), after the loop: the custom statistics are recorded.
RunFinish ==
    /\ \/ pc = "stopped"
       \/ pc = "running" /\ is_empty(timeline)
    /\ stats' = [processed_events |-> Some(processed_events),
                 final_simulation_time |-> Some(timeline.current_time)]
    /\ pc' = "done"
    /\ history' = Append(history, [started_from |-> trace.started_from,
                                   dispatched |-> TypesAndTimes(trace.dispatched)])
    /\ UNCHANGED <<generators, max_time, max_events, stop_condition,
                   processed_events, stop_reason, trace>>
    /\ UNCHANGED <<tlVars, dispVars, genVars, next_uid, poisVars, hcVars, evVars, mmVars>>

\* Simulator.reset(), called after a run() returned: timeline.reset() and
\* stats.reset().  The generators are not touched.  The ghosts of the run
\* are cleared.
SimReset ==
    /\ pc = "done"
    /\ timeline' = reset(timeline)
    /\ stats' = Stats
    /\ pc' = "ready"
    /\ processed_events' = 0
    /\ stop_reason' = "none"
    /\ trace' = NoTrace
    /\ UNCHANGED <<generators, max_time, max_events, stop_condition, history>>
    /\ UNCHANGED <<last, inserted, drained, clock_before, dispVars, genVars, next_uid, poisVars, hcVars, evVars, mmVars>>

\* ------------------------------------------------- M/M/c example

EVENT_ARRIVAL == "customer_arrival"

EVENT_SERVICE_END == "service_end"

\* QueueSystem.__init__
QueueSystem(num_servers) ==
    [queue |-> <<>>, servers_busy |-> 0, num_servers |-> num_servers]

queue_length(qs) == Len(qs.queue)

servers_available(qs) == qs.num_servers - qs.servers_busy

is_server_available(qs) == servers_available(qs) > 0

add_to_queue(qs, e) == [qs EXCEPT !.queue = Append(@, e)]

\* next_from_queue taking the customer who arrived last.
next_from_queue_Last(qs) ==
    IF qs.queue = <<>>
    THEN [qs |-> qs, ret |-> None, raised |-> TRUE]
    ELSE [qs |-> [qs EXCEPT !.queue = SubSeq(@, 1, Len(@) - 1)],
          ret |-> Some(qs.queue[Len(qs.queue)]), raised |-> FALSE]

\* next_from_queue: ValueError on an empty queue, otherwise queue.pop(0).
next_from_queue(qs) ==
    IF qs.queue = <<>>
    THEN [qs |-> qs, ret |-> None, raised |-> TRUE]
    ELSE [qs |-> [qs EXCEPT !.queue = Tail(@)],
          ret |-> Some(Head(qs.queue)), raised |-> FALSE]

\* customer_payload_factory: the customer_id is a function of the time.
customer_payload_factory(t) == [customer_id |-> t]

\* An Event with the payload given to its constructor.
WithPayload(e, payload) ==
    [time |-> e.time, event_type |-> e.event_type, priority |-> e.priority,
     id |-> e.id, payload |-> payload]

\* arrival_generator.generate(current_time): PoissonEventGenerator.generate
\* with payload_factory=customer_payload_factory.
Arrival_generate(g, current_time, time_delta, uid) ==
    LET r == Poisson_generate(g, current_time, time_delta, uid)
    IN  IF r.ret = None
        THEN None
        ELSE Some(WithPayload(r.ret[1], customer_payload_factory(r.ret[1].time)))

\* The service-end Event both handlers construct, with the id uid.
ServiceEvent(service_end_time, uid, customer_id, arrival_time, start, service_time) ==
    WithPayload(Event(service_end_time, EVENT_SERVICE_END, 0, uid),
                [customer_id |-> customer_id, arrival_time |-> arrival_time,
                 service_start_time |-> start, service_time |-> service_time])

\* ArrivalHandler.process_event, with time_delta and service_time what the
\* two random draws give: the arrival time is written into the Event's
\* payload, the next arrival is generated, and the customer is taken into
\* service if a server is free and put in the waiting queue otherwise.
Arrival_process_event(qs, g, event, tl, time_delta, service_time, uid) ==
    LET arrival_time == event.time
        arrived == [event EXCEPT !.payload =
                       [customer_id |-> @.customer_id, arrival_time |-> arrival_time]]
        next_arrival == Arrival_generate(g, tl.current_time, time_delta, uid)
        uid1 == uid + Len(next_arrival)
    IN  IF is_server_available(qs)
        THEN [qs |-> [qs EXCEPT !.servers_busy = @ + 1],
              ret |-> next_arrival \o
                        <<ServiceEvent(tl.current_time + service_time, uid1 + 1,
                                       arrived.payload.customer_id, arrival_time,
                                       tl.current_time, service_time)>>,
              uid |-> uid1 + 1, enqueued |-> <<>>, taken |-> <<>>]
        ELSE [qs |-> add_to_queue(qs, arrived),
              ret |-> next_arrival,
              uid |-> uid1, enqueued |-> <<arrived>>, taken |-> <<>>]

\* ServiceEndHandler.process_event: the next waiting customer is taken into
\* service, or the server is released when nobody waits.
ServiceEnd_process_event(qs, event, tl, service_time, uid) ==
    IF queue_length(qs) > 0
    THEN LET n == next_from_queue(qs)
             next_event == n.ret[1]
         IN  [qs |-> n.qs,
              ret |-> <<ServiceEvent(tl.current_time + service_time, uid + 1,
                                     next_event.payload.customer_id,
                                     next_event.payload.arrival_time,
                                     tl.current_time, service_time)>>,
              uid |-> uid + 1, enqueued |-> <<>>, taken |-> <<next_event>>]
    ELSE [qs |-> [qs EXCEPT !.servers_busy = @ - 1],
          ret |-> <<>>, uid |-> uid, enqueued |-> <<>>, taken |-> <<>>]

\* dispatch on the Simulator of the example: the two handlers are registered
\* for one type each, and handle runs process_event for an Event of that
\* type.
Queue_dispatch(qs, g, event, tl, time_delta, service_time, uid) ==
    IF event.event_type = EVENT_ARRIVAL
    THEN Arrival_process_event(qs, g, event, tl, time_delta, service_time, uid)
    ELSE IF event.event_type = EVENT_SERVICE_END
    THEN ServiceEnd_process_event(qs, event, tl, service_time, uid)
    ELSE [qs |-> qs, ret |-> <<>>, uid |-> uid, enqueued |-> <<>>, taken |-> <<>>]

\* One iteration of run()'s loop in the example (max_time set, no event
\* limit, no stop predicate): pop, the time check, dispatch, and the
\* scheduling of the new Events.
Queue_loop_body(qs, g, tl, horizon, time_delta, service_time, uid) ==
    LET r == get_next_event(tl)
        event == r.ret[1]
    IN  IF event.time > horizon
        THEN [qs |-> qs, tl |-> r.tl, reason |-> "time", uid |-> uid,
              enqueued |-> <<>>, taken |-> <<>>, discarded |-> Some(event),
              raised |-> FALSE]
        ELSE LET d == Queue_dispatch(qs, g, event, r.tl, time_delta, service_time, uid)
                 a == add_new_events(d.ret,
                         [tl |-> r.tl, admitted |-> <<>>, dropped |-> <<>>,
                          raised |-> FALSE])
             IN  [qs |-> d.qs, tl |-> a.tl, reason |-> "none", uid |-> d.uid,
                  enqueued |-> d.enqueued, taken |-> d.taken, discarded |-> None,
                  raised |-> a.raised]

\* The arrival rates given to run_queue_simulation.
ArrivalRates == {0, 1}

\* run_queue_simulation(arrival_rate, service_rate, num_servers,
\* simulation_time), up to the loop of simulator.run(): the QueueSystem, the
\* generator, the handlers and the Simulator are created, and initialize()
\* seeds the TimeLine with generate(0) of the arrival generator.
QueueRun ==
    /\ mm_pc = "idle"
    /\ \E rate \in ArrivalRates, n \in 1..MaxServers, horizon \in 1..MaxSimulationTime,
          time_delta \in Deltas :
         LET g == PoissonEventGenerator(EVENT_ARRIVAL, rate, Some(horizon), 0)
             first == Arrival_generate(g, reset(timeline).current_time, time_delta,
                                       next_uid)
             seeded == schedule_events(reset(timeline), first)
         IN  /\ queue_system' = QueueSystem(n)
             /\ arrival_generator' = Some(g)
             /\ simulation_time' = horizon
             /\ timeline' = seeded.tl
             /\ next_uid' = next_uid + Len(first)
    /\ mm_pc' = "running"
    /\ UNCHANGED <<waited, taken, discarded>>
    /\ UNCHANGED <<last, inserted, drained, clock_before, dispVars, simVars, genVars, poisVars, hcVars, evVars>>

\* One iteration of the loop.
QueueStep ==
    /\ mm_pc = "running"
    /\ ~is_empty(timeline)
    /\ \E time_delta \in Deltas, service_time \in Deltas :
         LET r == Queue_loop_body(queue_system, arrival_generator[1], timeline,
                                  simulation_time, time_delta, service_time, next_uid)
         IN  /\ r.uid <= MaxQueueUid
             /\ queue_system' = r.qs
             /\ timeline' = r.tl
             /\ next_uid' = r.uid
             /\ waited' = waited \o r.enqueued
             /\ taken' = taken \o r.taken
             /\ discarded' = r.discarded
             /\ mm_pc' = IF r.reason = "none" /\ ~r.raised THEN "running" ELSE "done"
    /\ UNCHANGED <<arrival_generator, simulation_time>>
    /\ UNCHANGED <<last, inserted, drained, clock_before, dispVars, simVars, genVars, poisVars, hcVars, evVars>>

\* The loop ends on an empty TimeLine.
QueueFinish ==
    /\ mm_pc = "running"
    /\ is_empty(timeline)
    /\ mm_pc' = "done"
    /\ UNCHANGED <<queue_system, arrival_generator, simulation_time, waited, taken,
                   discarded>>
    /\ UNCHANGED <<tlVars, dispVars, simVars, genVars, next_uid, poisVars, hcVars, evVars>>

Init ==
    /\ timeline = TimeLine
    /\ last = NoCall
    /\ inserted = <<>>
    /\ drained = <<>>
    /\ clock_before = 0
    /\ next_uid = 0
    /\ dispatcher = EventDispatcher
    /\ registered = <<>>
    /\ disp = NoDispatch
    /\ generators = <<>>
    /\ max_time = Inf
    /\ max_events = Inf
    /\ stop_condition = None
    /\ stats = Stats
    /\ pc = "idle"
    /\ processed_events = 0
    /\ stop_reason = "none"
    /\ trace = NoTrace
    /\ history = <<>>
    /\ composite = None
    /\ gcall = NoGenCall
    /\ stream = NoStream
    /\ emitted = <<>>
    /\ poisson = None
    /\ pcall = NoPoissonCall
    /\ hcall = NoHandleCall
    /\ evs = <<>>
    /\ dicts = <<>>
    /\ cells = <<>>
    /\ ecall = NoEventCall
    /\ queue_system = QueueSystem(1)
    /\ arrival_generator = None
    /\ simulation_time = 0
    /\ mm_pc = "idle"
    /\ waited = <<>>
    /\ taken = <<>>
    /\ discarded = None

TimelineNext ==
    \/ ScheduleEvent
    \/ ScheduleEvents
    \/ PeekNextEvent
    \/ PeekNextTime
    \/ GetNextEvent
    \/ Clear
    \/ Reset

TimelineSpec == Init /\ [][TimelineNext]_vars

DispatcherNext ==
    \/ RegisterHandler
    \/ Dispatch

DispatcherSpec == Init /\ [][DispatcherNext]_vars

GeneratorNext ==
    \/ NewComposite
    \/ CompositeGenerate
    \/ CompositeGenerateNextTime
    \/ ScheduledGenerate
    \/ ScheduledGenerateNextTime

GeneratorSpec == Init /\ [][GeneratorNext]_vars

QueueNext ==
    \/ QueueRun
    \/ QueueStep
    \/ QueueFinish

QueueSpec == Init /\ [][QueueNext]_vars

EventNext ==
    \/ NewEvent
    \/ CopyWithNewTime
    \/ AddPayload
    \/ AddPayloadList
    \/ AppendToPayloadList

EventSpec == Init /\ [][EventNext]_vars

HandlerNext ==
    \/ Handle
    \/ HandleChain
    \/ HandleConditional

HandlerSpec == Init /\ [][HandlerNext]_vars

PoissonNext ==
    \/ NewPoisson
    \/ PoissonGenerateNextTime
    \/ PoissonGenerate

PoissonSpec == Init /\ [][PoissonNext]_vars

Next ==
    \/ AddGenerator
    \/ AddHandler
    \/ SetMaxTime
    \/ SetMaxEvents
    \/ SetStopCondition
    \/ RunStart
    \/ RunStep
    \/ RunFinish
    \/ SimReset

Spec == Init /\ [][Next]_vars

\* ================================================================ properties

\* The Events held in a TimeLine's queue.
QueuedEvents(tl) == {x[4] : x \in tl.event_queue}

\* Position of an Event in the order of insertion.
InsertionIndex(id) == CHOOSE i \in 1..Len(inserted) : inserted[i] = id

\* a comes out before b: time ascending, then priority descending, then
\* insertion order ascending.
ComesBefore(a, b) ==
    \/ a.time < b.time
    \/ a.time = b.time /\ a.priority > b.priority
    \/ a.time = b.time /\ a.priority = b.priority
         /\ InsertionIndex(a.id) < InsertionIndex(b.id)

\* C1: a get_next_event call on a non-empty queue returns an Event that was
\* inserted and comes before every Event left in the queue under (time
\* ascending, priority descending, insertion order ascending); so the Events
\* returned by get_next_event calls made in a row come out sorted by that key.
C1_OrderingLaw ==
    /\ (last.op = "get_next_event" /\ last.ret # None) =>
          /\ \E i \in 1..Len(inserted) : inserted[i] = last.ret[1].id
          /\ last.ret[1] \notin QueuedEvents(timeline)
          /\ \A e \in QueuedEvents(timeline) : ComesBefore(last.ret[1], e)
    /\ \A i, j \in 1..Len(drained) : i < j => ComesBefore(drained[i], drained[j])

\* Three Events at one time came out in a row: the one of higher priority
\* first although it was inserted last, then the two of equal priority in
\* insertion order.
C1_Witness ==
    /\ Len(drained) = 3
    /\ drained[1].time = drained[2].time /\ drained[2].time = drained[3].time
    /\ drained[1].priority > drained[2].priority
    /\ drained[2].priority = drained[3].priority
    /\ InsertionIndex(drained[1].id) = 3

\* C2: schedule_event(e) called with the clock at T raises and inserts
\* nothing when e.time < T, and inserts e without raising when e.time >= T.
C2_Causality ==
    [][last'.op = "schedule_event" =>
         LET e == last'.args[1]
             T == timeline.current_time
         IN  /\ (e.time < T) =>
                   (last'.raised /\ e \notin QueuedEvents(timeline'))
             /\ (e.time >= T) =>
                   /\ ~last'.raised
                   /\ e \in QueuedEvents(timeline')
                   /\ size(timeline') = size(timeline) + 1]_vars

\* An Event at exactly the current time was accepted after the clock advanced.
C2_Witness ==
    /\ last.op = "schedule_event"
    /\ timeline.current_time > 0
    /\ last.args[1].time = timeline.current_time
    /\ ~last.raised
    /\ last.args[1] \in QueuedEvents(timeline)

\* C3: over schedule_event, schedule_events, peek_next_event, peek_next_time,
\* clear and get_next_event the clock never decreases, and it changes only in
\* a get_next_event that returns an Event, to that Event's time.
C3_ClockMonotonic ==
    [][last'.op # "reset" =>
         /\ timeline'.current_time >= timeline.current_time
         /\ timeline'.current_time # timeline.current_time =>
               /\ last'.op = "get_next_event"
               /\ last'.ret # None
               /\ timeline'.current_time = last'.ret[1].time]_vars

\* Two get_next_event calls in a row moved the clock forward twice.
C3_Witness ==
    /\ Len(drained) = 2
    /\ 0 < drained[1].time
    /\ drained[1].time < drained[2].time
    /\ timeline.current_time = drained[2].time

\* The ids of the handlers whose process_event ran in the last dispatch call,
\* in the order they ran.
RECURSIVE ProcessOrder(_)
ProcessOrder(calls) ==
    IF calls = <<>> THEN <<>>
    ELSE (IF Head(calls).hook = "process_event" THEN <<Head(calls).handler>> ELSE <<>>)
         \o ProcessOrder(Tail(calls))

\* How many elements of the sequence s equal x.
RECURSIVE Count(_, _)
Count(s, x) ==
    IF s = <<>> THEN 0 ELSE (IF Head(s) = x THEN 1 ELSE 0) + Count(Tail(s), x)

RECURSIVE HandlerIds(_)
HandlerIds(hs) == IF hs = <<>> THEN <<>> ELSE <<Head(hs).id>> \o HandlerIds(Tail(hs))

\* C9: in a dispatch call, a registered handler that declares a type set is
\* invoked (once per registration) when the Event's type is in the set and is
\* not invoked for an Event of another type; a registered handler that
\* declares no type is invoked (once per registration) whatever the type.
C9_Routing ==
    disp.event # None =>
        \A i \in 1..Len(registered) :
            LET h == registered[i]
                e == disp.event[1]
                runs == Count(ProcessOrder(disp.calls), h.id)
            IN  /\ (h.event_types # {} /\ e.event_type \in h.event_types) =>
                      runs = Count(HandlerIds(registered), h.id)
                /\ (h.event_types # {} /\ e.event_type \notin h.event_types) =>
                      runs = 0
                /\ (h.event_types = {}) =>
                      runs = Count(HandlerIds(registered), h.id)

\* An Event of type X was dispatched with a handler for {X}, a handler for
\* {Y} and a default handler registered: the first and the last ran, the
\* second did not.
C9_Witness ==
    /\ disp.event # None
    /\ disp.event[1].event_type = "X"
    /\ \E i, j, k \in 1..Len(registered) :
         /\ registered[i].event_types = {"X"}
         /\ registered[j].event_types = {"Y"}
         /\ registered[k].event_types = {}
         /\ Count(ProcessOrder(disp.calls), registered[i].id) = 1
         /\ Count(ProcessOrder(disp.calls), registered[j].id) = 0
         /\ Count(ProcessOrder(disp.calls), registered[k].id) = 1

\* What the handlers hs return for the Event e when run in the order of hs,
\* the new Events taking the ids after uid.
RECURSIVE OutputsInOrder(_, _, _)
OutputsInOrder(hs, e, uid) ==
    IF hs = <<>> THEN <<>>
    ELSE LET out == process_event(Head(hs), e, uid)
         IN  out \o OutputsInOrder(Tail(hs), e, uid + Len(out))

\* The order the documentation gives for an Event of type ty: the registered
\* handlers that declare ty, in registration order, then the registered
\* handlers that declare no type, in registration order.
DocumentedOrder(ty) ==
    SelectSeq(registered, LAMBDA h : ty \in h.event_types)
        \o SelectSeq(registered, LAMBDA h : h.event_types = {})

\* C10: a dispatch call runs the handlers registered for the Event's type in
\* registration order, then the default handlers in registration order, and
\* returns the concatenation of what they returned, in that order.
C10_DispatchOrder ==
    disp.event # None =>
        LET e == disp.event[1]
            order == DocumentedOrder(e.event_type)
        IN  /\ ProcessOrder(disp.calls) = HandlerIds(order)
            /\ disp.ret = OutputsInOrder(order, e, e.id)

\* A default handler was registered first, two handlers for the Event's type
\* after it; the two ran first and the list returned holds Events of all three.
C10_Witness ==
    /\ disp.event # None
    /\ Len(registered) = 3
    /\ registered[1].event_types = {}
    /\ registered[1].out # <<>>
    /\ registered[2].id # registered[3].id
    /\ disp.event[1].event_type \in registered[2].event_types
    /\ disp.event[1].event_type \in registered[3].event_types
    /\ ProcessOrder(disp.calls) =
         <<registered[2].id, registered[3].id, registered[1].id>>
    /\ Len(disp.ret) >= 3

\* The elements of a sequence.
Range(seq) == {seq[i] : i \in 1..Len(seq)}

\* run() has left its loop by a break, or has returned.
RunEnded == pc \in {"stopped", "done"}

\* C4: run() dispatches no Event whose time is after max_time; a popped
\* Event after max_time is the last one popped, ends the run for the time
\* limit and is not dispatched; a popped Event at exactly max_time is
\* dispatched when no other stop check applies.
C4_TimeLimit ==
    /\ \A e \in Range(trace.dispatched) : e.time <= max_time
    /\ \A i \in 1..Len(trace.popped) :
         LET e == trace.popped[i]
         IN  /\ (e.time > max_time) =>
                   /\ i = Len(trace.popped)
                   /\ RunEnded
                   /\ stop_reason = "time"
                   /\ e \notin Range(trace.dispatched)
             /\ (e.time = max_time /\ i <= max_events /\ stop_condition = None) =>
                   e \in Range(trace.dispatched)

\* A run dispatched an Event at exactly max_time and then stopped at an
\* Event after max_time.
C4_Witness ==
    /\ pc = "done"
    /\ stop_reason = "time"
    /\ \E e \in Range(trace.dispatched) : e.time = max_time
    /\ trace.popped[Len(trace.popped)].time > max_time

\* C5: with max_events = N, run() never dispatches more than N Events; when
\* an (N+1)-th Event is popped that is not after max_time, the run ends for
\* the event limit with exactly N Events dispatched and that Event discarded.
C5_EventLimit ==
    /\ Len(trace.dispatched) <= max_events
    /\ (stop_reason = "events") =>
          /\ RunEnded
          /\ Len(trace.dispatched) = max_events
          /\ Len(trace.popped) = max_events + 1
          /\ trace.popped[Len(trace.popped)] \notin Range(trace.dispatched)
    /\ (/\ Len(trace.popped) > max_events
        /\ trace.popped[Len(trace.popped)].time <= max_time) =>
          stop_reason = "events"

\* A run with max_events = 2 stopped for the event limit with Events still
\* queued.
C5_Witness ==
    /\ pc = "done"
    /\ max_events = 2
    /\ stop_reason = "events"
    /\ Len(trace.dispatched) = 2
    /\ ~is_empty(timeline)

\* C6: the stop predicate is called for a popped Event after the pop (the
\* clock it sees is that Event's time) and before the Event is dispatched;
\* when it returns true the run ends and the Event is never dispatched.
C6_CustomStop ==
    \A i \in 1..Len(trace.stop_evals) :
        LET ev == trace.stop_evals[i]
        IN  /\ ev.event = trace.popped[i]
            /\ ev.clock = ev.event.time
            /\ ev.ndispatched = i - 1
            /\ ev.result =>
                  /\ i = Len(trace.popped)
                  /\ RunEnded
                  /\ stop_reason = "custom"
                  /\ Len(trace.dispatched) = i - 1
                  /\ ev.event \notin Range(trace.dispatched)
            /\ ~ev.result =>
                  /\ Len(trace.dispatched) >= i
                  /\ trace.dispatched[i] = ev.event

\* A run stopped by the predicate at its second Event, after the clock had
\* moved on from the first.
C6_Witness ==
    /\ pc = "done"
    /\ stop_reason = "custom"
    /\ Len(trace.stop_evals) = 2
    /\ trace.stop_evals[2].result
    /\ trace.stop_evals[2].clock > trace.stop_evals[1].clock
    /\ Len(trace.dispatched) = 1

\* C7: the time limit is checked first, the event limit only if the time
\* limit did not fire, the stop predicate only if neither did: the predicate
\* is never called for an Event past max_time or past max_events, and the
\* break taken is the first of the three whose condition holds.
C7_Precedence ==
    /\ \A i \in 1..Len(trace.stop_evals) :
         /\ trace.stop_evals[i].event.time <= max_time
         /\ i <= max_events
    /\ (RunEnded /\ trace.popped # <<>>) =>
         LET n == Len(trace.popped)
             e == trace.popped[n]
             held == /\ Len(trace.stop_evals) = n
                     /\ trace.stop_evals[n].result
         IN  /\ (stop_reason = "time") <=> (e.time > max_time)
             /\ (stop_reason = "events") <=> (e.time <= max_time /\ n > max_events)
             /\ (stop_reason = "custom") <=>
                   (e.time <= max_time /\ n <= max_events /\ held)
             /\ (stop_reason = "none") <=>
                   (e.time <= max_time /\ n <= max_events /\ ~held)

\* A run ended at an Event past both limits, with a stop predicate set that
\* holds of the TimeLine: the break was the time limit's and the predicate
\* was not called for that Event.
C7_Witness ==
    /\ pc = "done"
    /\ trace.popped # <<>>
    /\ trace.popped[Len(trace.popped)].time > max_time
    /\ Len(trace.popped) > max_events
    /\ stop_condition # None
    /\ StopHolds(stop_condition[1], timeline)
    /\ stop_reason = "time"
    /\ Len(trace.stop_evals) < Len(trace.popped)

\* C8: each Event returned by dispatch is scheduled when its time is not
\* before the clock and is skipped otherwise, and run() never fails with the
\* TimeLine's causality error.
C8_NewEventsFiltered ==
    /\ pc # "failed"
    /\ Len(trace.produced) = Len(trace.admitted) + Len(trace.dropped)
    /\ \A i \in 1..Len(trace.produced) :
         LET p == trace.produced[i]
             scheduled == p.event \in QueuedEvents(timeline) \cup Range(trace.popped)
         IN  /\ (p.event.time >= p.at) =>
                   (p.event \in Range(trace.admitted) /\ scheduled)
             /\ (p.event.time < p.at) =>
                   /\ p.event \in Range(trace.dropped)
                   /\ p.event \notin Range(trace.admitted)
                   /\ ~scheduled

\* A handler returned an Event before the clock, which was skipped, and one
\* at exactly the clock, which was scheduled, and the run went on to its end.
C8_Witness ==
    /\ pc = "done"
    /\ \E i, j \in 1..Len(trace.produced) :
         /\ trace.produced[i].at > 0
         /\ trace.produced[i].event.time < trace.produced[i].at
         /\ trace.produced[i].event \in Range(trace.dropped)
         /\ trace.produced[j].event.time = trace.produced[j].at
         /\ trace.produced[j].event \in Range(trace.popped)


\* ---------------------------------------------------------------- C11

Peeks == {"peek_next_event", "peek_next_time"}

\* C11: peek_next_event and peek_next_time change nothing of the TimeLine
\* (clock, queue, counter), and what peek_next_event returns is the Event the
\* next get_next_event returns: in the state a peek leaves, and so after any
\* number of peeks made in a row, the Event returned is the one
\* get_next_event pops from that state, and a get_next_event that follows a
\* peek_next_event directly returns that same Event.
C11_PeekReadOnly ==
    [][ /\ (last'.op \in Peeks) => (timeline' = timeline)
        /\ (last'.op = "peek_next_event") =>
               (last'.ret = get_next_event(timeline').ret)
        /\ (last.op = "peek_next_event" /\ last'.op = "get_next_event") =>
               (last'.ret = last.ret)
      ]_vars

\* A peek_next_event on a queue of at least two Events, after the clock has
\* advanced, that returned an Event other than the one inserted first.
C11_Witness ==
    /\ last.op = "peek_next_event"
    /\ last.ret # None
    /\ size(timeline) >= 2
    /\ timeline.current_time > 0
    /\ \E x \in timeline.event_queue :
         x[3] < (CHOOSE y \in timeline.event_queue : y[4] = last.ret[1])[3]

\* ---------------------------------------------------------------- C12

\* C12: a get_next_event call on an empty queue does not raise, returns None,
\* and leaves the clock, the queue and the counter as they were.
C12_GetOnEmpty ==
    [][ (last'.op = "get_next_event" /\ is_empty(timeline)) =>
            /\ ~last'.raised
            /\ last'.ret = None
            /\ timeline' = timeline
      ]_vars

\* get_next_event returned None on a TimeLine whose clock and counter are
\* not 0.
C12_Witness ==
    /\ last.op = "get_next_event"
    /\ last.ret = None
    /\ is_empty(timeline)
    /\ clock_before > 0
    /\ timeline.event_id_counter > 0

\* ---------------------------------------------------------------- C13

\* The index of the first Event of the list that is in the past of `now`;
\* Len(events) + 1 if there is none.
FirstStale(events, now) ==
    LET stale == {i \in 1..Len(events) : events[i].time < now}
    IN  IF stale = {} THEN Len(events) + 1
        ELSE CHOOSE i \in stale : \A j \in stale : i <= j

\* C13: schedule_events(list) raises exactly when some element is in the
\* past; with k the first such element (or one past the end), the elements
\* before k are in the queue afterwards, inserted in list order, the elements
\* from k on are not, and nothing that was queued is removed.
C13_NonTransactional ==
    [][ (last'.op = "schedule_events") =>
            LET events == last'.args
                k == FirstStale(events, timeline.current_time)
            IN  /\ last'.raised <=> (k <= Len(events))
                /\ timeline'.event_queue = timeline.event_queue \cup
                       {HeapEntry(events[i], timeline.event_id_counter + i) : i \in 1..(k - 1)}
                /\ \A i \in k..Len(events) : events[i] \notin QueuedEvents(timeline')
                /\ timeline'.event_id_counter = timeline.event_id_counter + (k - 1)
                /\ timeline'.current_time = timeline.current_time
      ]_vars

\* schedule_events raised at the second element of a list, and the first
\* element is in the queue.
C13_Witness ==
    /\ last.op = "schedule_events"
    /\ last.raised
    /\ Len(last.args) >= 2
    /\ last.args[1] \in QueuedEvents(timeline)
    /\ last.args[2] \notin QueuedEvents(timeline)
    /\ last.args[2].time < timeline.current_time

\* ---------------------------------------------------------------- C14

\* C14: after reset the queue is empty (size 0, is_empty), the clock is 0 and
\* the counter is 0, and schedule_event accepts an Event of any time >= 0.
C14_Reset ==
    (last.op = "reset") =>
        /\ size(timeline) = 0
        /\ is_empty(timeline)
        /\ timeline.current_time = 0
        /\ timeline.event_id_counter = 0
        /\ \A t \in Times, p \in Priorities :
             ~schedule_event(timeline, Event(t, "X", p, next_uid + 1)).raised

\* reset was called when the clock had advanced.
C14_Witness ==
    /\ last.op = "reset"
    /\ clock_before > 0
    /\ timeline = TimeLine

\* ---------------------------------------------------------------- C15

\* C15 as stated: after clear the queue is empty, the clock is 0 and the
\* counter is 0.
C15_ClearIsFullReset ==
    (last.op = "clear") =>
        /\ is_empty(timeline)
        /\ timeline.current_time = 0
        /\ timeline.event_id_counter = 0

\* C15, amended: clear empties the queue and leaves the clock and the counter
\* as they were.
C15_ClearEmptiesQueueOnly ==
    [][ (last'.op = "clear") =>
            /\ is_empty(timeline')
            /\ timeline'.current_time = timeline.current_time
            /\ timeline'.event_id_counter = timeline.event_id_counter
      ]_vars

\* clear was called on a TimeLine whose clock and counter are not 0, and they
\* still are not.
C15_Witness ==
    /\ last.op = "clear"
    /\ is_empty(timeline)
    /\ clock_before > 0
    /\ timeline.current_time = clock_before
    /\ timeline.event_id_counter > 0


\* ---------------------------------------------------------------- C16

\* C16 as stated: after Simulator.reset() the clock is 0 and the queue is
\* empty, and a run() made after reset() dispatches the same sequence of
\* (event_type, time) as the run before it.
C16_ResetReproduces ==
    /\ (pc = "ready") => (timeline.current_time = 0 /\ size(timeline) = 0)
    /\ \A i \in 2..Len(history) :
         (history[i].started_from = "ready") =>
             (history[i].dispatched = history[i - 1].dispatched)

\* ---------------------------------------------------------------- C17

\* The Events the generate calls of a list returned, in call order.
RECURSIVE Returned(_)
Returned(queried) ==
    IF queried = <<>> THEN <<>> ELSE Head(queried).ret \o Returned(Tail(queried))

\* C17: from initialize() to the return of run(), the generate calls the
\* Simulator has made are one per registered generator, in registration
\* order, each with current_time 0; and when initialize() has returned, the
\* clock is 0, the statistics are empty, and the queue holds exactly the
\* Events those calls returned, inserted in call order into an emptied
\* TimeLine.
C17_Seeding ==
    /\ (pc \in {"running", "stopped", "failed", "done"}) =>
           /\ Len(trace.queried) = Len(generators)
           /\ \A i \in 1..Len(trace.queried) :
                /\ trace.queried[i].generator = i
                /\ trace.queried[i].current_time = 0
    /\ (pc = "running" /\ trace.popped = <<>>) =>
           LET produced == Returned(trace.queried)
           IN  /\ timeline.current_time = 0
               /\ stats = Stats
               /\ timeline.event_id_counter = Len(produced)
               /\ timeline.event_queue =
                      {HeapEntry(produced[i], i) : i \in 1..Len(produced)}

\* A second run() of a Simulator with two generators, called without
\* reset() after a run that dispatched Events, has returned, having
\* dispatched Events itself.
C17_Witness ==
    /\ pc = "done"
    /\ Len(history) = 2
    /\ history[1].dispatched # <<>>
    /\ history[2].started_from = "done"
    /\ Len(generators) = 2
    /\ Len(trace.dispatched) >= 2
    /\ Returned(trace.queried) # <<>>


\* ---------------------------------------------------------------- C18

\* The entries greater than t of a list, in list order.
RECURSIVE After(_, _)
After(schedule, t) ==
    IF schedule = <<>> THEN <<>>
    ELSE (IF Head(schedule) > t THEN <<Head(schedule)>> ELSE <<>>) \o After(Tail(schedule), t)

\* The schedules of a list of generators, one after the other.
RECURSIVE AllEntries(_)
AllEntries(gens) ==
    IF gens = <<>> THEN <<>> ELSE Head(gens).schedule \o AllEntries(Tail(gens))

\* The ascending merge of the children's schedule entries greater than t,
\* each entry once.
Merge(c, t) == Sorted(After(AllEntries(c.generators), t))

\* C18: the generate(t) calls made on a new composite, all with the same t,
\* return Events whose times are, in order, the ascending merge of the
\* children's schedule entries greater than t, and None from then on.
C18_CompositeMerge ==
    (stream.on /\ stream.times # <<>>) =>
        LET expected == Merge(composite[1], stream.current_time[1])
        IN  \A i \in 1..Len(stream.times) :
              stream.times[i] = IF i <= Len(expected) THEN Some(expected[i]) ELSE None

\* Children [2, 4] and [1, 3] queried from t = 0 gave 1, 2, 3, 4, then None.
C18_Witness ==
    /\ stream.on
    /\ stream.current_time = Some(0)
    /\ stream.times = <<Some(1), Some(2), Some(3), Some(4), None>>
    /\ Len(composite[1].generators) = 2
    /\ composite[1].generators[1].schedule = <<2, 4>>
    /\ composite[1].generators[2].schedule = <<1, 3>>

\* ---------------------------------------------------------------- C19

\* What the children's generate_next_time(t) return: the non-None values.
ChildTimes(c, t) ==
    {Scheduled_generate_next_time(c.generators[i], t).ret[1] :
        i \in {j \in 1..Len(c.generators) :
                  Scheduled_generate_next_time(c.generators[j], t).ret # None}}

\* C19: composite.generate_next_time(t) returns the least of the values its
\* children's generate_next_time(t) return, and None exactly when every
\* child returns None (as when there is no child).
C19_CompositeNextTime ==
    [][ (gcall'.target = 0 /\ gcall'.op = "generate_next_time") =>
            LET times == ChildTimes(composite[1], gcall'.current_time)
            IN  /\ (gcall'.rtime = None) <=> (times = {})
                /\ (times # {}) =>
                       /\ gcall'.rtime[1] \in times
                       /\ \A x \in times : gcall'.rtime[1] <= x
      ]_vars

\* generate_next_time on a composite of two children returned the time the
\* second child gives, which is less than the one the first gives.
C19_Witness ==
    /\ gcall.target = 0
    /\ gcall.op = "generate_next_time"
    /\ gcall.rtime # None
    /\ Len(composite[1].generators) = 2
    /\ LET t1 == Scheduled_generate_next_time(composite[1].generators[1], gcall.current_time).ret
           t2 == Scheduled_generate_next_time(composite[1].generators[2], gcall.current_time).ret
       IN  /\ t1 # None
           /\ t2 # None
           /\ t2[1] < t1[1]
           /\ gcall.rtime = t2

\* ---------------------------------------------------------------- C20

\* The positions (from 1) at or after the cursor of g whose entry is
\* greater than t.
Future(g, t) == {j \in (g.current_index + 1)..Len(g.schedule) : g.schedule[j] > t}

\* C20: generate_next_time(t) on a ScheduledEventGenerator returns the first
\* entry greater than t at or after the cursor and leaves the cursor on it,
\* every entry passed being <= t; with no such entry it returns None and the
\* cursor is the length of the schedule.  A generator whose call returned
\* None has its cursor at the length of the schedule, a cursor there stays
\* there whatever is called, and every call on such a generator returns
\* None.
C20_ScheduledNextTime ==
    [][ /\ composite # None
        /\ composite' # None
        /\ Len(composite'[1].generators) = Len(composite[1].generators)
        =>
        \A i \in 1..Len(composite[1].generators) :
          LET g == composite[1].generators[i]
              h == composite'[1].generators[i]
              called == gcall'.target = i
              future == Future(g, gcall'.current_time)
          IN  /\ (called /\ gcall'.op = "generate_next_time") =>
                     IF future = {}
                     THEN gcall'.rtime = None /\ h.current_index = Len(g.schedule)
                     ELSE LET j == CHOOSE k \in future : \A l \in future : k <= l
                          IN  /\ gcall'.rtime = Some(g.schedule[j])
                              /\ h.current_index = j - 1
                              /\ \A k \in (g.current_index + 1)..(j - 1) :
                                   g.schedule[k] <= gcall'.current_time
              /\ (called /\ gcall'.ret = None /\ gcall'.rtime = None) =>
                     (h.current_index = Len(h.schedule))
              /\ (g.current_index = Len(g.schedule)) =>
                     /\ h.current_index = Len(h.schedule)
                     /\ called => (gcall'.ret = None /\ gcall'.rtime = None)
      ]_vars

\* A generator with schedule [0, 2] that has produced no Event returned None
\* from generate_next_time(0): an earlier call with current_time 2 left its
\* cursor at the length of the schedule.
C20_Witness ==
    /\ composite # None
    /\ next_uid = 0
    /\ gcall.target >= 1
    /\ gcall.op = "generate_next_time"
    /\ gcall.current_time = 0
    /\ gcall.rtime = None
    /\ composite[1].generators[gcall.target].schedule = <<0, 2>>
    /\ composite[1].generators[gcall.target].current_index = 2


\* ---------------------------------------------------------------- C21

\* C21: a generate(t) call on a ScheduledEventGenerator that returns an Event
\* returns it at the time generate_next_time(t) would have returned, which is
\* the first entry greater than t at or after the cursor, and leaves the
\* cursor one position past that entry; and over all the generate calls made
\* on a generator, directly or through the composite, no time has been
\* returned more often than it occurs in the schedule.
C21_GenerateConsumesOne ==
    /\ [](\A i \in 1..Len(emitted) :
            \A x \in Range(emitted[i]) :
               Count(emitted[i], x) <= Count(composite[1].generators[i].schedule, x))
    /\ [][ /\ composite # None
           /\ composite' # None
           /\ Len(composite'[1].generators) = Len(composite[1].generators)
           =>
           \A i \in 1..Len(composite[1].generators) :
             LET g == composite[1].generators[i]
                 h == composite'[1].generators[i]
                 t == gcall'.current_time
                 future == Future(g, t)
             IN  (gcall'.target = i /\ gcall'.op = "generate" /\ gcall'.ret # None) =>
                     /\ future # {}
                     /\ LET j == CHOOSE k \in future : \A l \in future : k <= l
                        IN  /\ gcall'.ret[1].time = g.schedule[j]
                            /\ Some(gcall'.ret[1].time) = Scheduled_generate_next_time(g, t).ret
                            /\ h.current_index = j
                            /\ emitted'[i] = Append(emitted[i], g.schedule[j])
         ]_vars

\* generate was called on a generator with schedule [1, 1], and the calls on
\* it have returned an Event at time 1 twice.
C21_Witness ==
    /\ composite # None
    /\ gcall.target >= 1
    /\ gcall.op = "generate"
    /\ gcall.ret # None
    /\ composite[1].generators[gcall.target].schedule = <<1, 1>>
    /\ emitted[gcall.target] = <<1, 1>>


\* ---------------------------------------------------------------- C22

\* The time a call on the Poisson generator returned: that of its Event for
\* generate.
PoissonTime ==
    IF pcall.op = "generate"
    THEN (IF pcall.ret = None THEN None ELSE Some(pcall.ret[1].time))
    ELSE pcall.rtime

\* C22: a generate_next_time(t) or generate(t) call on a Poisson generator
\* gives no time if rate <= 0 or max_time is set and t >= max_time, without
\* drawing; otherwise it draws an interval delta >= 0 and gives no time if
\* max_time is set and t + delta > max_time, and t + delta otherwise; so a
\* time given is >= t, and <= max_time when max_time is set.
C22_Poisson ==
    (pcall.op # "none") =>
        LET g == poisson[1]
            t == pcall.current_time
            refused == g.rate <= 0 \/ (g.max_time # None /\ t >= g.max_time[1])
        IN  /\ refused => (PoissonTime = None /\ pcall.drawn = None)
            /\ ~refused =>
                   /\ pcall.drawn # None
                   /\ pcall.drawn[1] >= 0
                   /\ PoissonTime =
                          IF g.max_time # None /\ t + pcall.drawn[1] > g.max_time[1]
                          THEN None
                          ELSE Some(t + pcall.drawn[1])
            /\ (PoissonTime # None) =>
                   /\ PoissonTime[1] >= t
                   /\ (g.max_time # None) => (PoissonTime[1] <= g.max_time[1])

\* generate, called before the horizon, returned an Event exactly at
\* max_time.
C22_Witness ==
    /\ pcall.op = "generate"
    /\ pcall.ret # None
    /\ poisson[1].max_time # None
    /\ pcall.current_time < poisson[1].max_time[1]
    /\ pcall.ret[1].time = poisson[1].max_time[1]


\* ---------------------------------------------------------------- C23

\* The hooks of the handler with id `id` among the hooks run, in order.
RECURSIVE HooksOf(_, _)
HooksOf(calls, id) ==
    IF calls = <<>> THEN <<>>
    ELSE (IF Head(calls).handler = id THEN <<Head(calls).hook>> ELSE <<>>)
            \o HooksOf(Tail(calls), id)

\* C23: a handle call on a handler that can_handle the Event runs the
\* handler's pre_handle, process_event, post_handle, in that order and each
\* once, gives post_handle the list process_event returned, and returns that
\* list; one on a handler that cannot runs none of them and returns an empty
\* list.  For a handler of the pool the hooks run are these three and no
\* other, and the list is the one its process_event produces.
C23_TemplateMethod ==
    (hcall.kind # "none") =>
        LET h == hcall.handler[1]
            e == hcall.event[1]
        IN  /\ can_handle(h, e) =>
                   /\ HooksOf(hcall.calls, h.id) =
                          <<"pre_handle", "process_event", "post_handle">>
                   /\ Head(hcall.calls) = Hook(h, "pre_handle")
                   /\ hcall.calls[Len(hcall.calls)] = Hook(h, "post_handle")
                   /\ hcall.passed = Some(hcall.ret)
            /\ (can_handle(h, e) /\ hcall.kind = "handler") =>
                   /\ Len(hcall.calls) = 3
                   /\ hcall.ret = process_event(h, e, e.id)
            /\ ~can_handle(h, e) =>
                   /\ hcall.calls = <<>>
                   /\ hcall.ret = <<>>
                   /\ hcall.passed = None

\* handle on a handler of the pool that can_handle the Event returned two
\* Events.
C23_Witness ==
    /\ hcall.kind = "handler"
    /\ can_handle(hcall.handler[1], hcall.event[1])
    /\ Len(hcall.ret) = 2
    /\ Len(hcall.calls) = 3

\* ---------------------------------------------------------------- C24

\* The Events of a list without their ids.
Shape(events) ==
    [i \in 1..Len(events) |->
        [time |-> events[i].time, event_type |-> events[i].event_type,
         priority |-> events[i].priority]]

\* What the handler h of the pool produces for the Event e, without ids:
\* nothing if it cannot handle e.
Produces(h, e) ==
    IF can_handle(h, e)
    THEN [i \in 1..Len(h.out) |->
            [time |-> e.time + h.out[i].dt, event_type |-> h.out[i].event_type,
             priority |-> h.out[i].priority]]
    ELSE <<>>

\* What the handlers of a list produce for e, one after the other.
RECURSIVE ProducesAll(_, _)
ProducesAll(handlers, e) ==
    IF handlers = <<>> THEN <<>>
    ELSE Produces(Head(handlers), e) \o ProducesAll(Tail(handlers), e)

\* The process_event hooks of the handlers of a list that can_handle e, in
\* list order.
RECURSIVE ProcessHooks(_, _)
ProcessHooks(handlers, e) ==
    IF handlers = <<>> THEN <<>>
    ELSE (IF can_handle(Head(handlers), e)
          THEN <<Hook(Head(handlers), "process_event")>> ELSE <<>>)
            \o ProcessHooks(Tail(handlers), e)

\* The hooks run between the composite handler's own process_event and its
\* post_handle.
SubCalls == SubSeq(hcall.calls, 3, Len(hcall.calls) - 1)

\* C24: a ChainHandler handling an Event calls process_event on its
\* sub-handlers in child order with that Event (on those that can_handle it;
\* the others produce nothing) and returns the concatenation, in child
\* order, of the Events they produce, each with an id of its own.
C24_Chain ==
    (hcall.kind = "chain" /\ can_handle(hcall.handler[1], hcall.event[1])) =>
        LET c == hcall.handler[1]
            e == hcall.event[1]
        IN  /\ SubCalls = ProcessHooks(c.handlers, e)
            /\ Shape(hcall.ret) = ProducesAll(c.handlers, e)
            /\ \A i, j \in 1..Len(hcall.ret) :
                 (i # j) => (hcall.ret[i].id # hcall.ret[j].id)
            /\ \A i \in 1..Len(hcall.ret) : hcall.ret[i].id # e.id

\* A chain of two different handlers that both produce Events returned
\* their Events, at least three.
C24_Witness ==
    /\ hcall.kind = "chain"
    /\ Len(hcall.handler[1].handlers) = 2
    /\ hcall.handler[1].handlers[1] # hcall.handler[1].handlers[2]
    /\ Len(SubCalls) = 2
    /\ Len(hcall.ret) >= 3
    /\ Produces(hcall.handler[1].handlers[1], hcall.event[1]) # <<>>
    /\ Produces(hcall.handler[1].handlers[2], hcall.event[1]) # <<>>

\* ---------------------------------------------------------------- C25

\* process_event of the sub-handler h was called.
Ran(h) == Hook(h, "process_event") \in Range(SubCalls)

\* No pre_handle or post_handle of a sub-handler was called.
NoSubHooks == \A i \in 1..Len(SubCalls) : SubCalls[i].hook = "process_event"

\* C25 as stated, for a ConditionalHandler with two sub-handlers that handles
\* the Event: the true handler's process_event runs iff the predicate holds,
\* the false handler's iff it does not, never both, and no hook of a
\* sub-handler runs.
C25_PicksExactlyOne ==
    (/\ hcall.kind = "conditional"
     /\ hcall.handler[1].false_handler # None
     /\ can_handle(hcall.handler[1], hcall.event[1])) =>
        LET c == hcall.handler[1]
            e == hcall.event[1]
        IN  /\ Ran(c.true_handler) <=> ConditionHolds(c.condition_func, e)
            /\ Ran(c.false_handler[1]) <=> ~ConditionHolds(c.condition_func, e)
            /\ ~(Ran(c.true_handler) /\ Ran(c.false_handler[1]))
            /\ NoSubHooks

\* C25, amended: when a ConditionalHandler handles an Event, the true
\* handler's process_event runs iff the predicate holds and the true handler
\* can_handle the Event; the false handler's runs iff the predicate does not
\* hold, a false handler was given and it can_handle the Event; at most one
\* of them runs, once, and what it produces is returned, an empty list when
\* neither runs; no pre_handle or post_handle of a sub-handler runs.
C25_PicksAtMostOne ==
    (hcall.kind = "conditional" /\ can_handle(hcall.handler[1], hcall.event[1])) =>
        LET c == hcall.handler[1]
            e == hcall.event[1]
            holds == ConditionHolds(c.condition_func, e)
            true_runs == holds /\ can_handle(c.true_handler, e)
            false_runs == /\ ~holds
                          /\ c.false_handler # None
                          /\ can_handle(c.false_handler[1], e)
        IN  /\ Ran(c.true_handler) <=> true_runs
            /\ (c.false_handler # None) => (Ran(c.false_handler[1]) <=> false_runs)
            /\ Len(SubCalls) <= 1
            /\ (Len(SubCalls) = 1) <=> (true_runs \/ false_runs)
            /\ NoSubHooks
            /\ Shape(hcall.ret) =
                   IF true_runs THEN Produces(c.true_handler, e)
                   ELSE IF false_runs THEN Produces(c.false_handler[1], e)
                   ELSE <<>>

\* A ConditionalHandler with two sub-handlers handled an Event on which the
\* predicate holds and which the true handler cannot handle, while the false
\* handler can: neither ran.
C25_Witness ==
    /\ hcall.kind = "conditional"
    /\ hcall.handler[1].false_handler # None
    /\ can_handle(hcall.handler[1], hcall.event[1])
    /\ ConditionHolds(hcall.handler[1].condition_func, hcall.event[1])
    /\ ~can_handle(hcall.handler[1].true_handler, hcall.event[1])
    /\ can_handle(hcall.handler[1].false_handler[1], hcall.event[1])
    /\ SubCalls = <<>>
    /\ hcall.ret = <<>>
    /\ Len(hcall.calls) = 3


\* ---------------------------------------------------------------- C26

\* What is read through the payload of the Event at index i: each key with
\* its number, or with the content of its list.
PayloadView(e, d, c, i) ==
    [k \in DOMAIN d[e[i].payload] |->
        IF d[e[i].payload][k].kind = "ref"
        THEN c[d[e[i].payload][k].v]
        ELSE d[e[i].payload][k].v]

\* C26 as stated: copy_with_new_time(t) returns a new Event at time t with
\* the type, generator and priority of the original and a payload that reads
\* the same; and from then on a mutation made through the payload of one of
\* the two Events (a key set, or a value appended to a list stored in it)
\* does not change what is read through the payload of the other.
C26_DeepCopy ==
    [][ /\ (ecall'.op = "copy_with_new_time") =>
               LET new == evs'[ecall'.target]
                   old == evs[ecall'.source]
               IN  /\ new.event_type = old.event_type
                   /\ new.generator_id = old.generator_id
                   /\ new.priority = old.priority
                   /\ new.id # old.id
                   /\ PayloadView(evs', dicts', cells', ecall'.target)
                          = PayloadView(evs, dicts, cells, ecall'.source)
        /\ (ecall'.op \in {"add_payload", "append"}) =>
               \A i \in 1..Len(evs) :
                  (i # ecall'.target) =>
                      (PayloadView(evs', dicts', cells', i)
                           = PayloadView(evs, dicts, cells, i))
      ]_vars


\* ---------------------------------------------------------------- C28

\* C28: queue causality.  In every state reached through schedule_event,
\* schedule_events, get_next_event, the peeks, clear and reset, every Event
\* held in the queue has a time that is not before current_time (and is
\* keyed in the heap by that time).
C28_QueueCausality ==
    \A x \in timeline.event_queue :
        /\ x[4].time >= timeline.current_time
        /\ x[1] = x[4].time

\* The clock has advanced, an Event at exactly the clock's time has just been
\* accepted, and a later Event is queued as well.
C28_Witness ==
    /\ timeline.current_time > 0
    /\ last.op = "schedule_event"
    /\ ~last.raised
    /\ last.args[1].time = timeline.current_time
    /\ \E x \in timeline.event_queue : x[4] = last.args[1]
    /\ \E y \in timeline.event_queue : y[4].time > timeline.current_time


\* ---------------------------------------------------------------- C27

\* The Events admitted to the TimeLine during the run: the initial seeds,
\* then the Events of the handlers that passed the admission test.
AdmittedInRun == trace.seeded \o trace.admitted

\* C27: run() repeats its loop until the TimeLine is empty or a stop check
\* fires.  While the loop runs, every Event admitted so far is either still
\* queued or was popped, once; and when run() has returned with no stop
\* check fired, the TimeLine is empty and every admitted Event, and no other,
\* was popped and dispatched exactly once.
C27_RunsToEmpty ==
    /\ (pc \in {"running", "stopped", "done"}) =>
          /\ \A e \in Range(AdmittedInRun) :
                /\ Count(AdmittedInRun, e) = 1
                /\ Count(trace.popped, e)
                       + (IF e \in QueuedEvents(timeline) THEN 1 ELSE 0) = 1
          /\ QueuedEvents(timeline) \cup Range(trace.popped) \subseteq Range(AdmittedInRun)
          /\ Cardinality(timeline.event_queue) = Cardinality(QueuedEvents(timeline))
    /\ (pc = "done" /\ stop_reason = "none") =>
          /\ timeline.event_queue = {}
          /\ trace.dispatched = trace.popped
          /\ \A e \in Range(AdmittedInRun) :
                Count(trace.popped, e) = 1 /\ Count(trace.dispatched, e) = 1
          /\ Len(trace.dispatched) = Len(AdmittedInRun)

\* A run returned with no stop check fired, after dispatching seeds and
\* Events produced by handlers, one of which was not admitted.
C27_Witness ==
    /\ pc = "done"
    /\ stop_reason = "none"
    /\ trace.seeded # <<>>
    /\ trace.admitted # <<>>
    /\ trace.dropped # <<>>
    /\ Len(trace.dispatched) >= 3


\* ---------------------------------------------------------------- C29

\* C29: within one run(), the Events handed to the dispatcher have
\* non-decreasing times, and each one's time is timeline.current_time at the
\* moment of its dispatch.
C29_DispatchOrder ==
    /\ Len(trace.dispatched_at) = Len(trace.dispatched)
    /\ \A i \in 1..Len(trace.dispatched) :
          trace.dispatched[i].time = trace.dispatched_at[i]
    /\ \A i, j \in 1..Len(trace.dispatched) :
          (i < j) => (trace.dispatched[i].time <= trace.dispatched[j].time)

\* A run dispatched two Events at one time and then a later one, and a
\* handler returned an Event in the past, which was not admitted.
C29_Witness ==
    /\ Len(trace.dispatched) >= 3
    /\ trace.dispatched[1].time = trace.dispatched[2].time
    /\ trace.dispatched[2].time < trace.dispatched[3].time
    /\ trace.dropped # <<>>


\* ---------------------------------------------------------------- C30

\* C30: termination under an event limit.  With max_events a finite N, the
\* loop counter processed_events is the number of Events popped, one per
\* iteration; the loop is only ever re-entered with at most N Events popped,
\* so run() leaves the loop after at most N + 1 iterations, having popped at
\* most N + 1 Events and dispatched at most N, whatever the handlers produce;
\* the Event popped as number N + 1 ends the loop and is not dispatched.
C30_EventLimitTerminates ==
    (max_events # Inf) =>
        /\ processed_events = Len(trace.popped)
        /\ Len(trace.popped) <= max_events + 1
        /\ Len(trace.dispatched) <= max_events
        /\ (pc = "running") => (Len(trace.popped) <= max_events)
        /\ (Len(trace.popped) = max_events + 1) =>
              /\ pc \in {"stopped", "done"}
              /\ stop_reason \in {"events", "time"}
              /\ Len(trace.dispatched) < Len(trace.popped)

\* The event limit N >= 1 ended a run whose handlers kept producing Events
\* at the current time: N dispatched, N + 1 popped, Events still queued.
C30_Witness ==
    /\ max_events # Inf
    /\ max_events >= 1
    /\ pc = "stopped"
    /\ stop_reason = "events"
    /\ Len(trace.popped) = max_events + 1
    /\ Len(trace.dispatched) = max_events
    /\ timeline.event_queue # {}
    /\ \E i \in 1..Len(trace.produced) :
          /\ trace.produced[i].event.time = trace.produced[i].at
          /\ trace.produced[i].event \in Range(trace.admitted)


\* ---------------------------------------------------------------- C31

\* C31: the processed_events statistic recorded at the end of run() is the
\* number of Events popped during the run; it is the number of dispatched
\* Events when the run ended on an empty TimeLine, and one more than that
\* when a stop check (time limit, event limit, stop predicate) ended it.
C31_ProcessedEvents ==
    (pc = "done") =>
        /\ stats.processed_events = Some(Len(trace.popped))
        /\ (stop_reason = "none") =>
              Len(trace.popped) = Len(trace.dispatched)
        /\ (stop_reason \in {"time", "events", "custom"}) =>
              Len(trace.popped) = Len(trace.dispatched) + 1
        /\ stop_reason \in {"none", "time", "events", "custom"}

\* A run ended by the stop predicate after dispatching at least one Event.
C31_Witness ==
    /\ pc = "done"
    /\ stop_reason = "custom"
    /\ Len(trace.dispatched) >= 1
    /\ stats.processed_events = Some(Len(trace.dispatched) + 1)


\* ---------------------------------------------------------------- C32

\* The Event the last iteration popped.
LastPopped == trace.popped[Len(trace.popped)]

\* C32: when run() stops because of the time limit, the clock is at the time
\* of the discarded Event, which is strictly after max_time; the recorded
\* final_simulation_time is that time; the discarded Event was not
\* dispatched; and the Events admitted and not yet popped are still queued.
C32_TimeLimitStop ==
    (pc \in {"stopped", "done"} /\ stop_reason = "time") =>
        /\ trace.popped # <<>>
        /\ timeline.current_time = LastPopped.time
        /\ timeline.current_time > max_time
        /\ LastPopped \notin Range(trace.dispatched)
        /\ \A i \in 1..Len(trace.dispatched) : trace.dispatched[i].time <= max_time
        /\ QueuedEvents(timeline) = Range(AdmittedInRun) \ Range(trace.popped)
        /\ (pc = "done") => (stats.final_simulation_time = Some(LastPopped.time))

\* run() returned after the time limit ended it, with Events dispatched
\* before and Events left in the queue.
C32_Witness ==
    /\ pc = "done"
    /\ stop_reason = "time"
    /\ trace.dispatched # <<>>
    /\ timeline.event_queue # {}
    /\ stats.final_simulation_time = Some(max_time + 1)


\* ---------------------------------------------------------------- C33

\* C33: a schedule_event call rejected for causality (the Event is before
\* the clock) leaves the TimeLine as it was: queue, current_time and
\* insertion counter; an accepted call takes exactly the next counter value,
\* so the counters of accepted Events do not depend on rejected calls.
C33_RejectedLeavesUnchanged ==
    [][ (last'.op = "schedule_event") =>
            IF last'.raised
            THEN /\ last'.args[1].time < timeline.current_time
                 /\ timeline' = timeline
                 /\ size(timeline') = size(timeline)
                 /\ inserted' = inserted
            ELSE /\ last'.args[1].time >= timeline.current_time
                 /\ timeline' = [timeline EXCEPT
                        !.event_id_counter = @ + 1,
                        !.event_queue = @ \cup
                            {HeapEntry(last'.args[1], timeline.event_id_counter + 1)}]
      ]_vars

\* A schedule_event call has just been rejected on a TimeLine that holds
\* Events accepted before it.
C33_Witness ==
    /\ last.op = "schedule_event"
    /\ last.raised
    /\ timeline.event_queue # {}
    /\ timeline.event_id_counter >= 2
    /\ last.args[1].time < timeline.current_time


\* ---------------------------------------------------------------- C34

\* C34: a ChainHandler declares the union of its children's type sets; a
\* handle call on it for an Event outside a non-empty union runs nothing;
\* otherwise process_event is called on exactly the children whose own
\* can_handle holds for the Event, and no pre_handle or post_handle of a
\* child is called.  So a child with an empty type set in a chain that has a
\* typed child runs exactly for the Events whose type is in the union.
C34_ChainTypes ==
    (hcall.kind = "chain") =>
        LET c == hcall.handler[1]
            e == hcall.event[1]
            children == Range(c.handlers)
        IN  /\ c.event_types = UNION {h.event_types : h \in children}
            /\ ~can_handle(c, e) => (hcall.calls = <<>> /\ hcall.ret = <<>>)
            /\ can_handle(c, e) =>
                  /\ NoSubHooks
                  /\ \A h \in children : Ran(h) <=> can_handle(h, e)
                  /\ \A i \in 1..Len(SubCalls) :
                        \E h \in children : SubCalls[i].handler = h.id
            /\ \A h \in children :
                  (h.event_types = {} /\ c.event_types # {}) =>
                      (Hook(h, "process_event") \in Range(hcall.calls)
                           <=> e.event_type \in c.event_types)

\* A chain of a typed child and a match-everything child was given an Event
\* whose type is outside the union: nothing ran.
C34_Witness ==
    /\ hcall.kind = "chain"
    /\ Len(hcall.handler[1].handlers) = 2
    /\ \E h \in Range(hcall.handler[1].handlers) : h.event_types = {} /\ h.out # <<>>
    /\ hcall.handler[1].event_types # {}
    /\ hcall.event[1].event_type \notin hcall.handler[1].event_types
    /\ hcall.calls = <<>>


\* ---------------------------------------------------------------- C35

\* The service-end Events pending in the TimeLine.
PendingServiceEnds ==
    {x \in timeline.event_queue : x[4].event_type = EVENT_SERVICE_END}

\* The Event the time check discarded was a service-end Event.
ServiceEndDiscarded ==
    discarded # None /\ discarded[1].event_type = EVENT_SERVICE_END

\* C35: in the M/M/c example, after any sequence of dispatched arrival and
\* service-end Events: servers_busy is between 0 and num_servers; customers
\* wait only when every server is busy; the pending service-end Events are as
\* many as the busy servers (one fewer once the time check has popped and
\* discarded a service-end Event, which ends the run); and customers leave
\* the waiting queue in the order they joined it, which is the order of
\* their arrival times.
C35_QueueSystem ==
    /\ 0 <= queue_system.servers_busy
    /\ queue_system.servers_busy <= queue_system.num_servers
    /\ (queue_system.queue # <<>>) =>
          (queue_system.servers_busy = queue_system.num_servers)
    /\ (discarded = None) =>
          (Cardinality(PendingServiceEnds) = queue_system.servers_busy)
    /\ Cardinality(PendingServiceEnds) + (IF ServiceEndDiscarded THEN 1 ELSE 0)
           = queue_system.servers_busy
    /\ taken \o queue_system.queue = waited
    /\ \A i, j \in 1..Len(waited) :
          (i < j) => /\ waited[i].payload.arrival_time <= waited[j].payload.arrival_time
                     /\ waited[i].id # waited[j].id
    /\ \A i \in 1..Len(waited) :
          /\ waited[i].event_type = EVENT_ARRIVAL
          /\ waited[i].payload.arrival_time = waited[i].time

\* With every server busy, a customer has been taken from the waiting queue
\* while a customer who arrived later is still waiting.
C35_Witness ==
    /\ mm_pc = "running"
    /\ taken # <<>>
    /\ queue_system.queue # <<>>
    /\ queue_system.servers_busy = queue_system.num_servers
    /\ Cardinality(PendingServiceEnds) = queue_system.num_servers
    /\ taken[1].time < queue_system.queue[1].time

====
